---------------------------- MODULE Spec2Model ----------------------------
(***************************************************************************)
(* A model of the SQL report generator: the visual query builder           *)
(* (src/query_builder.py), the query-builder tab of the application        *)
(* (src/app.py), the chart builder (src/chart_builder.py), the report      *)
(* generator (src/report_generator.py), calls of the three builders made   *)
(* side by side, and the session of the application: the query executed    *)
(* (src/database.py), its results and the report made of them.             *)
(*                                                                         *)
(* Python strings are sequences of one-character strings, so that split,   *)
(* join, lower(), substring tests and f-string formatting are computed     *)
(* character by character.                                                 *)
(***************************************************************************)
EXTENDS Integers, Sequences, FiniteSets, TLC

VARIABLES
    selection,          \* the arguments handed to the query builder
    qpc,                \* "ready" | "built" | "validated"
    query_result,       \* outcome of build_query
    validation_result,  \* outcome of validate_query_components
    table_checked,      \* the table checkboxes that are ticked
    col_checked,        \* the column checkboxes that are ticked
    group_by_cols,      \* the value of the "Group By:" multiselect
    agg_choice,         \* the value of each "Aggregate ..." selectbox
    current_query,      \* st.session_state.current_query
    builder_call,       \* the latest build_query call of the tab: arguments, outcome
    chart_request,      \* the arguments handed to the chart builder
    cpc,                \* "idle" | "ready" | "done"
    chart_result,       \* outcome of create_chart
    recommendations,    \* outcome of get_chart_recommendations
    report_request,     \* the method of the report generator called, and its arguments
    rpc,                \* "idle" | "ready" | "done"
    report_result,      \* outcome of the call
    builders,           \* what the three builder objects hold in their attributes
    inputs,             \* the argument objects of each caller, as they are in memory
    calls,              \* each caller's call of a builder: request, position, result
    query_results,      \* st.session_state.query_results
    current_report,     \* st.session_state.current_report, <<>> while not set
    report_source,      \* the results that current_report was generated from
    page                \* what the latest run of the script put on the page

qvars == <<selection, qpc, query_result, validation_result>>

uivars == <<table_checked, col_checked, group_by_cols, agg_choice, current_query,
            builder_call>>

chartvars == <<chart_request, cpc, chart_result, recommendations>>

reportvars == <<report_request, rpc, report_result>>

callvars == <<builders, inputs, calls>>

sessionvars == <<query_results, current_report, report_source, page>>

vars == <<selection, qpc, query_result, validation_result, table_checked,
          col_checked, group_by_cols, agg_choice, current_query, builder_call,
          chart_request, cpc, chart_result, recommendations,
          report_request, rpc, report_result, builders, inputs, calls,
          query_results, current_report, report_source, page>>

(***************************************************************************)
(* Strings                                                                 *)
(***************************************************************************)

\* A string literal as a sequence of characters.
Chars(s) == [i \in 1..Len(s) |-> SubSeq(s, i, i)]

RECURSIVE Join(_, _)
\* sep.join(parts)
Join(sep, parts) ==
    IF parts = <<>> THEN <<>>
    ELSE IF Len(parts) = 1 THEN parts[1]
    ELSE parts[1] \o sep \o Join(sep, Tail(parts))

\* s[i:].startswith(p), i counted from 1
StartsWithAt(s, p, i) ==
    /\ i + Len(p) - 1 <= Len(s)
    /\ \A k \in 1..Len(p) : s[i + k - 1] = p[k]

StartsWith(s, p) == StartsWithAt(s, p, 1)

RECURSIVE FindFrom(_, _, _)
\* s.find(p, i - 1) + 1: the first place at or after i where p occurs, else 0
FindFrom(s, p, i) ==
    IF i + Len(p) - 1 > Len(s) THEN 0
    ELSE IF StartsWithAt(s, p, i) THEN i
    ELSE FindFrom(s, p, i + 1)

\* s.find(p) counted from 1; 0 when p does not occur
Find(s, p) == FindFrom(s, p, 1)

\* p in s
Contains(s, p) == Find(s, p) # 0

RECURSIVE Split(_, _)
\* s.split(sep), sep non-empty
Split(s, sep) ==
    LET i == Find(s, sep) IN
    IF i = 0 THEN <<s>>
    ELSE <<SubSeq(s, 1, i - 1)>> \o Split(SubSeq(s, i + Len(sep), Len(s)), sep)

Upper == Chars("ABCDEFGHIJKLMNOPQRSTUVWXYZ")
LowerCase == Chars("abcdefghijklmnopqrstuvwxyz")

LowerChar(c) ==
    IF \E i \in 1..Len(Upper) : Upper[i] = c
    THEN LowerCase[CHOOSE i \in 1..Len(Upper) : Upper[i] = c]
    ELSE c

\* s.lower()
Lower(s) == [i \in 1..Len(s) |-> LowerChar(s[i])]

Digits == Chars("0123456789")

RECURSIVE IntToStr(_)
\* str(n) for a natural number
IntToStr(n) ==
    IF n < 10 THEN <<Digits[n + 1]>>
    ELSE IntToStr(n \div 10) \o <<Digits[(n % 10) + 1]>>

\* parts[-1]
Last(parts) == parts[Len(parts)]

\* The entries of a list.
Range(seq) == {seq[i] : i \in 1..Len(seq)}

RECURSIVE Flatten(_)
Flatten(lists) ==
    IF lists = <<>> THEN <<>> ELSE Head(lists) \o Flatten(Tail(lists))

(***************************************************************************)
(* Python values that reach the query builder inside a filter              *)
(***************************************************************************)

PyMissing == [kind |-> "missing", s |-> <<>>, n |-> 0]   \* key not in the dict
PyNone    == [kind |-> "none", s |-> <<>>, n |-> 0]
PyStr(s)  == [kind |-> "str", s |-> s, n |-> 0]
PyInt(n)  == [kind |-> "int", s |-> <<>>, n |-> n]

\* dict.get(key, default)
Get(item, key, default) ==
    IF item[key].kind = "missing" THEN default ELSE item[key]

\* bool(v)
Truthy(v) ==
    CASE v.kind = "str" -> v.s # <<>>
      [] v.kind = "int" -> v.n # 0
      [] OTHER -> FALSE

\* f"{v}"
Format(v) ==
    CASE v.kind = "str" -> v.s
      [] v.kind = "int" -> IntToStr(v.n)
      [] OTHER -> Chars("None")


(***************************************************************************)
(* VisualQueryBuilder (src/query_builder.py)                               *)
(***************************************************************************)

\* What a call hands back: a value, or the exception that escaped it.
Returned(v) == [raised |-> FALSE, error |-> "", value |-> v]
Raised(e)   == [raised |-> TRUE, error |-> e, value |-> <<>>]

\* f"{agg_func.lower()}_{col_name}" with col_name = column.split('.')[-1]
AggregateAlias(agg_func, column) ==
    Lower(agg_func) \o Chars("_") \o Last(Split(column, Chars(".")))

\* SelectItem with the alias taken from the whole column reference.
SelectItemQualifiedAlias(column, aggregations) ==
    IF DOMAIN aggregations # {} /\ column \in DOMAIN aggregations
    THEN LET agg_func == aggregations[column] IN
         agg_func \o Chars("(") \o column \o Chars(") AS ")
             \o Lower(agg_func) \o Chars("_") \o column
    ELSE column

\* One element of select_items.
SelectItem(column, aggregations) ==
    IF DOMAIN aggregations # {} /\ column \in DOMAIN aggregations
    THEN LET agg_func == aggregations[column] IN
         agg_func \o Chars("(") \o column \o Chars(") AS ")
             \o AggregateAlias(agg_func, column)
    ELSE column

build_select_columns(columns, aggregations) ==
    Join(Chars(",\n    "),
         [i \in 1..Len(columns) |-> SelectItem(columns[i], aggregations)])

\* JoinItem joining on customer_id as soon as either name contains "customer".
JoinItemEither(main_table, table) ==
    IF Contains(table, Chars("customer")) \/ Contains(main_table, Chars("customer"))
    THEN Chars("JOIN ") \o table \o Chars(" ON ") \o main_table
             \o Chars(".customer_id = ") \o table \o Chars(".customer_id")
    ELSE Chars("JOIN ") \o table \o Chars(" ON ") \o main_table
             \o Chars(".id = ") \o table \o Chars(".id")

\* One element of joins.
JoinItem(main_table, table) ==
    IF Contains(table, Chars("customer")) /\ Contains(main_table, Chars("customer"))
    THEN Chars("JOIN ") \o table \o Chars(" ON ") \o main_table
             \o Chars(".customer_id = ") \o table \o Chars(".customer_id")
    ELSE Chars("JOIN ") \o table \o Chars(" ON ") \o main_table
             \o Chars(".id = ") \o table \o Chars(".id")

build_from_clause(tables) ==
    IF Len(tables) = 1 THEN Returned(tables[1])
    ELSE IF Len(tables) = 0 THEN Raised("IndexError")      \* tables[0]
    ELSE LET main_table == tables[1]
             rest == Tail(tables)
             joins == [i \in 1..Len(rest) |-> JoinItem(main_table, rest[i])]
         IN  Returned(main_table \o Chars("\n") \o Join(Chars("\n"), joins))

QuotedOperators == {Chars("="), Chars("!="), Chars("LIKE")}

\* FilterRendered with no guard: the loop body appends for every filter.
FilterRenderedAlways(filter_item) == TRUE

\* Whether the loop body appends a condition for filter_item.
FilterRendered(filter_item) ==
    LET column == Get(filter_item, "column", PyNone)
        value  == Get(filter_item, "value", PyNone)
    IN  Truthy(column) /\ value.kind # "none"

\* FilterCondition quoting every textual value, whatever the operator.
FilterConditionQuoteAll(filter_item) ==
    LET column   == Get(filter_item, "column", PyNone)
        operator == Get(filter_item, "operator", PyStr(Chars("=")))
        value    == Get(filter_item, "value", PyNone)
    IN  IF value.kind = "str"
        THEN Format(column) \o Chars(" ") \o Format(operator) \o Chars(" '")
                 \o Format(value) \o Chars("'")
        ELSE Format(column) \o Chars(" ") \o Format(operator) \o Chars(" ")
                 \o Format(value)

\* The condition appended for filter_item.
FilterCondition(filter_item) ==
    LET column   == Get(filter_item, "column", PyNone)
        operator == Get(filter_item, "operator", PyStr(Chars("=")))
        value    == Get(filter_item, "value", PyNone)
    IN  IF value.kind = "str" /\ operator.kind = "str" /\ operator.s \in QuotedOperators
        THEN Format(column) \o Chars(" ") \o Format(operator) \o Chars(" '")
                 \o Format(value) \o Chars("'")
        ELSE Format(column) \o Chars(" ") \o Format(operator) \o Chars(" ")
                 \o Format(value)

RECURSIVE Conditions(_)
\* The list conditions after the loop over filters.
Conditions(filters) ==
    IF filters = <<>> THEN <<>>
    ELSE (IF FilterRendered(Head(filters))
          THEN <<FilterCondition(Head(filters))>> ELSE <<>>)
         \o Conditions(Tail(filters))

\* build_where_clause without the final test of conditions.
build_where_clause_unguarded(filters) ==
    IF filters = <<>> THEN <<>>
    ELSE Chars("WHERE ") \o Join(Chars(" AND "), Conditions(filters))

build_where_clause(filters) ==
    IF filters = <<>> THEN <<>>
    ELSE LET conditions == Conditions(filters) IN
         IF conditions # <<>>
         THEN Chars("WHERE ") \o Join(Chars(" AND "), conditions)
         ELSE <<>>

build_group_by_clause(group_by) ==
    IF group_by = <<>> THEN <<>>
    ELSE Chars("GROUP BY ") \o Join(Chars(", "), group_by)

\* OrderItem sorting aggregated columns ascending.
OrderItemAscending(item, aggregations) ==
    IF DOMAIN aggregations # {} /\ item \in DOMAIN aggregations
    THEN AggregateAlias(aggregations[item], item) \o Chars(" ASC")
    ELSE item \o Chars(" ASC")

\* One element of order_items.
OrderItem(item, aggregations) ==
    IF DOMAIN aggregations # {} /\ item \in DOMAIN aggregations
    THEN AggregateAlias(aggregations[item], item) \o Chars(" DESC")
    ELSE item \o Chars(" ASC")

build_order_by_clause(order_by, aggregations) ==
    IF order_by = <<>> THEN <<>>
    ELSE Chars("ORDER BY ")
             \o Join(Chars(", "),
                     [i \in 1..Len(order_by) |-> OrderItem(order_by[i], aggregations)])

\* QueryParts appending the ORDER BY clause before the GROUP BY clause.
QueryPartsOrderFirst(select_columns, from_clause, where_clause, group_clause, order_clause) ==
    <<Chars("SELECT ") \o select_columns, Chars("FROM ") \o from_clause>>
        \o (IF where_clause # <<>> THEN <<where_clause>> ELSE <<>>)
        \o (IF order_clause # <<>> THEN <<order_clause>> ELSE <<>>)
        \o (IF group_clause # <<>> THEN <<group_clause>> ELSE <<>>)

\* query_parts, given the five clauses.
QueryParts(select_columns, from_clause, where_clause, group_clause, order_clause) ==
    <<Chars("SELECT ") \o select_columns, Chars("FROM ") \o from_clause>>
        \o (IF where_clause # <<>> THEN <<where_clause>> ELSE <<>>)
        \o (IF group_clause # <<>> THEN <<group_clause>> ELSE <<>>)
        \o (IF order_clause # <<>> THEN <<order_clause>> ELSE <<>>)

build_query(tables, columns, group_by, aggregations, filters, order_by) ==
    LET select_columns == build_select_columns(columns, aggregations)
        from_clause    == build_from_clause(tables)
        where_clause   == IF filters # <<>> THEN build_where_clause(filters) ELSE <<>>
        group_clause   == IF group_by # <<>> THEN build_group_by_clause(group_by) ELSE <<>>
        order_clause   == IF order_by # <<>>
                          THEN build_order_by_clause(order_by, aggregations) ELSE <<>>
    IN  IF from_clause.raised THEN Raised(from_clause.error)   \* logged, re-raised
        ELSE Returned(Join(Chars("\n"),
                           QueryParts(select_columns, from_clause.value, where_clause,
                                      group_clause, order_clause)))

\* The warnings appended by the column-table consistency loop.
RECURSIVE ConsistencyWarnings(_, _)
ConsistencyWarnings(tables, columns) ==
    IF columns = <<>> THEN <<>>
    ELSE LET column == Head(columns)
             table_name == Split(column, Chars("."))[1]
         IN  (IF Contains(column, Chars("."))
                  /\ ~(\E i \in 1..Len(tables) : tables[i] = table_name)
              THEN <<Chars("Column ") \o column \o Chars(" references table ")
                         \o table_name \o Chars(" which is not selected")>>
              ELSE <<>>)
             \o ConsistencyWarnings(tables, Tail(columns))

\* validate_query_components treating a warning as an error.
validate_query_components_strict(tables, columns) ==
    [is_valid |-> ~(tables = <<>>) /\ ~(columns = <<>>)
                      /\ ConsistencyWarnings(tables, columns) = <<>>,
     errors   |-> (IF tables = <<>>
                   THEN <<Chars("At least one table must be selected")>> ELSE <<>>)
                  \o (IF columns = <<>>
                      THEN <<Chars("At least one column must be selected")>> ELSE <<>>),
     warnings |-> ConsistencyWarnings(tables, columns)]

validate_query_components(tables, columns) ==
    [is_valid |-> ~(tables = <<>>) /\ ~(columns = <<>>),
     errors   |-> (IF tables = <<>>
                   THEN <<Chars("At least one table must be selected")>> ELSE <<>>)
                  \o (IF columns = <<>>
                      THEN <<Chars("At least one column must be selected")>> ELSE <<>>),
     warnings |-> ConsistencyWarnings(tables, columns)]


(***************************************************************************)
(* The selections handed to the query builder                              *)
(***************************************************************************)

MaxTables == 3          \* longest tables list
MaxColumns == 3         \* longest columns list
MaxAggregations == 2    \* most entries of the aggregations dict
MaxGroupBy == 2         \* longest group_by list
MaxOrderBy == 2         \* longest order_by list
MaxFilters == 2         \* longest filters list
AggOptionsUsed == 2     \* how many of the selectbox options a user picks from

\* Sequences over S without repetition, of length at most n.
SeqsNoRep(S, n) ==
    UNION {{q \in [1..k -> S] : \A i, j \in 1..k : i # j => q[i] # q[j]} : k \in 0..n}

\* Sequences over S of length at most n.
SeqsUpTo(S, n) == UNION {[1..k -> S] : k \in 0..n}

readings == Chars("readings")
customer_billing == Chars("customer_billing")
customer_profiles == Chars("customer_profiles")
TableNames == {readings, customer_billing, customer_profiles}

usage_gallons_ref == Chars("readings.usage_gallons")
billing_zone_ref == Chars("customer_billing.zone")
zone_ref == Chars("zone")
ColumnRefs == {usage_gallons_ref, billing_zone_ref, zone_ref}

AggFuncs == {Chars("SUM"), Chars("AVG")}

\* The aggregations dicts with at most n entries.
AggMaps(n) ==
    UNION {[D -> AggFuncs] : D \in {E \in SUBSET ColumnRefs : Cardinality(E) <= n}}

Operators == {Chars("="), Chars("!="), Chars("<"), Chars(">"), Chars("<="),
              Chars(">="), Chars("LIKE")}

FilterColumns == {PyMissing, PyStr(<<>>), PyStr(zone_ref), PyStr(usage_gallons_ref)}
FilterOperators == {PyMissing} \cup {PyStr(o) : o \in Operators}
FilterValues == {PyNone, PyStr(Chars("A")), PyInt(0), PyInt(42)}

\* Every single filter within the bounds.
AllFilters == [column : FilterColumns, operator : FilterOperators, value : FilterValues]

\* The filters that longer lists are made of.
CoreFilters ==
    [column : {PyMissing, PyStr(zone_ref)},
     operator : {PyStr(Chars("=")), PyStr(Chars("<"))},
     value : {PyNone, PyStr(Chars("A")), PyInt(42)}]

FilterSeqs ==
    {<<f>> : f \in AllFilters} \cup SeqsUpTo(CoreFilters, MaxFilters)

one_filter == [column |-> PyStr(zone_ref), operator |-> PyStr(Chars("=")),
               value |-> PyStr(Chars("A"))]
null_filter == [column |-> PyStr(zone_ref), operator |-> PyStr(Chars("=")),
                value |-> PyNone]

Selection(t, c, g, a, f, o) ==
    [tables |-> t, columns |-> c, group_by |-> g, aggregations |-> a,
     filters |-> f, order_by |-> o]

\* Every columns, aggregations and order_by within the bounds (SELECT, ORDER BY).
SelectSelections ==
    {Selection(<<readings>>, c, <<>>, a, <<>>, o) :
        c \in SeqsNoRep(ColumnRefs, MaxColumns),
        a \in AggMaps(MaxAggregations),
        o \in SeqsNoRep(ColumnRefs, MaxOrderBy)}

\* Every tables list within the bounds (FROM), with and without columns.
FromSelections ==
    {Selection(t, c, <<>>, <<>>, <<>>, <<>>) :
        t \in SeqsNoRep(TableNames, MaxTables),
        c \in {<<>>, <<zone_ref>>}}

\* Every filters list within the bounds (WHERE).
WhereSelections ==
    {Selection(<<readings>>, <<zone_ref>>, <<>>, <<>>, f, <<>>) : f \in FilterSeqs}

\* Every combination of present and absent clauses.
ClauseSelections ==
    {Selection(t, <<zone_ref, usage_gallons_ref>>, g, a, f, o) :
        t \in {<<readings>>, <<customer_billing, customer_profiles>>},
        g \in SeqsNoRep(ColumnRefs, MaxGroupBy),
        a \in {<<>>, [c \in {usage_gallons_ref} |-> Chars("SUM")]},
        f \in {<<>>, <<one_filter>>, <<null_filter>>, <<null_filter, one_filter>>},
        o \in SeqsNoRep(ColumnRefs, MaxOrderBy)}

Selections ==
    SelectSelections \cup FromSelections \cup WhereSelections \cup ClauseSelections

NoResult == Returned(<<>>)
NoValidation == [is_valid |-> TRUE, errors |-> <<>>, warnings |-> <<>>]

(***************************************************************************)
(* ChartBuilder (src/chart_builder.py)                                     *)
(*                                                                         *)
(* A DataFrame is its column names, the dtype of each column and its rows; *)
(* a cell of a number column is an integer, a cell of an object column a   *)
(* string.  A figure is its traces and its layout, the layout flattened to *)
(* dotted keys ("margin.l").  Fitted trend values and correlation          *)
(* coefficients are real numbers and are left out of the traces.           *)
(***************************************************************************)

UpperChar(c) ==
    IF \E i \in 1..Len(LowerCase) : LowerCase[i] = c
    THEN Upper[CHOOSE i \in 1..Len(LowerCase) : LowerCase[i] = c]
    ELSE c

IsLetter(c) ==
    \E i \in 1..Len(Upper) : Upper[i] = c \/ LowerCase[i] = c

\* s.replace(old, new) for one-character old and new
Replace(s, old, new) == [i \in 1..Len(s) |-> IF s[i] = old THEN new ELSE s[i]]

\* s.title()
Title(s) ==
    [i \in 1..Len(s) |->
        IF i = 1 \/ ~IsLetter(s[i - 1]) THEN UpperChar(s[i]) ELSE LowerChar(s[i])]

\* The characters of the cells and names of this model, by code point.
CodePoints == Chars(" #0123456789ABCDEFGHIJKLMNOPQRSTUVWXYZ_abcdefghijklmnopqrstuvwxyz")

Ord(c) == CHOOSE i \in 1..Len(CodePoints) : CodePoints[i] = c

RECURSIVE StrLess(_, _)
\* a < b for two strings
StrLess(a, b) ==
    IF b = <<>> THEN FALSE
    ELSE IF a = <<>> THEN TRUE
    ELSE IF a[1] # b[1] THEN Ord(a[1]) < Ord(b[1])
    ELSE StrLess(Tail(a), Tail(b))

\* nulls are the cells that hold no value: <<row number, column>>
DataFrame(columns, dtypes, rows) ==
    [columns |-> columns, dtypes |-> dtypes, rows |-> rows, nulls |-> {}]

\* df.empty
Empty(df) == Len(df.rows) = 0 \/ Len(df.columns) = 0

\* col in df.columns
HasColumn(df, col) == col \in Range(df.columns)

\* df[col]
ColumnValues(df, col) == [i \in 1..Len(df.rows) |-> df.rows[i][col]]

\* df.select_dtypes(include=[np.number]).columns
NumericColumns(df) == SelectSeq(df.columns, LAMBDA c : df.dtypes[c] = "number")

\* a < b for two cells of a column
CellLess(df, col, a, b) ==
    IF df.dtypes[col] \in {"number", "datetime"} THEN a < b ELSE StrLess(a, b)

\* str(cell)
CellText(df, col, cell) ==
    IF df.dtypes[col] = "number" THEN IntToStr(cell) ELSE cell

RECURSIVE Unique(_)
\* Series.unique(): the distinct values in the order they first appear
Unique(values) ==
    IF values = <<>> THEN <<>>
    ELSE <<values[1]>> \o Unique(SelectSeq(Tail(values), LAMBDA v : v # values[1]))

RECURSIVE InsertRow(_, _, _, _)
\* row placed behind every row of the sorted list that is not greater
InsertRow(df, col, row, sorted) ==
    IF sorted = <<>> THEN <<row>>
    ELSE IF CellLess(df, col, row[col], sorted[1][col]) THEN <<row>> \o sorted
    ELSE <<sorted[1]>> \o InsertRow(df, col, row, Tail(sorted))

RECURSIVE SortedRows(_, _, _)
SortedRows(df, col, k) ==
    IF k = 0 THEN <<>>
    ELSE InsertRow(df, col, df.rows[k], SortedRows(df, col, k - 1))

\* df.sort_values(col) leaving the rows in the order they came in
sort_values_unsorted(df, col) == df

\* df.sort_values(col)
sort_values(df, col) == [df EXCEPT !.rows = SortedRows(df, col, Len(df.rows))]

RECURSIVE SumOf(_)
SumOf(values) == IF values = <<>> THEN 0 ELSE values[1] + SumOf(Tail(values))

\* groupby_sum with the rows left as they are, none of them summed
groupby_none(df, label_col, value_col) ==
    DataFrame(<<label_col, value_col>>,
              (label_col :> df.dtypes[label_col]) @@ (value_col :> df.dtypes[value_col]),
              [i \in 1..Len(df.rows) |->
                  (label_col :> df.rows[i][label_col])
                  @@ (value_col :> df.rows[i][value_col])])

\* df.groupby(label_col)[value_col].sum().reset_index(): one row for each
\* label, the labels ascending
groupby_sum(df, label_col, value_col) ==
    LET labels == Unique(ColumnValues(sort_values(df, label_col), label_col))
        total(label) ==
            SumOf(ColumnValues([df EXCEPT !.rows =
                                   SelectSeq(df.rows, LAMBDA r : r[label_col] = label)],
                               value_col))
    IN  DataFrame(<<label_col, value_col>>,
                  (label_col :> df.dtypes[label_col]) @@ (value_col :> df.dtypes[value_col]),
                  [i \in 1..Len(labels) |->
                      (label_col :> labels[i]) @@ (value_col :> total(labels[i]))])

\* Series.mean() and Series.median() as fractions
Mean(values) == [num |-> SumOf(values), den |-> Len(values)]

Median(df, col) ==
    LET values == ColumnValues(sort_values(df, col), col)
        n == Len(values)
    IN  IF n % 2 = 1 THEN [num |-> values[(n + 1) \div 2], den |-> 1]
        ELSE [num |-> values[n \div 2] + values[(n \div 2) + 1], den |-> 2]

Trace(type, name, mode, x, y) ==
    [type |-> type, name |-> name, mode |-> mode, x |-> x, y |-> y]

Figure(traces, layout) == [kind |-> "figure", traces |-> traces, layout |-> layout]

\* fig.update_layout(settings): the settings replace what the layout has
update_layout(fig, settings) == [fig EXCEPT !.layout = settings @@ fig.layout]

\* color_col if color_col and color_col != "None" else None
Optional(col) ==
    IF Truthy(col) /\ col # PyStr(Chars("None")) THEN col ELSE PyNone

\* plotly.express accepts a column argument that is None or names a column
PxAccepts(df, args) ==
    \A i \in 1..Len(args) : args[i] = PyNone \/ HasColumn(df, args[i].s)

\* The traces plotly.express draws: one for the frame, or one for each value
\* of the colour column in the order the values first appear.  y_col is
\* None for a chart of one variable.
PxTraces(df, type, mode, x_col, y_col, color) ==
    LET ys(frame) == IF y_col = PyNone THEN <<>> ELSE ColumnValues(frame, y_col.s)
    IN  IF color = PyNone
        THEN <<Trace(type, <<>>, mode, ColumnValues(df, x_col.s), ys(df))>>
        ELSE LET groups == Unique(ColumnValues(df, color.s))
                 part(g) == [df EXCEPT !.rows =
                                SelectSeq(df.rows, LAMBDA r : r[color.s] = g)]
             IN  [k \in 1..Len(groups) |->
                     Trace(type, CellText(df, color.s, groups[k]), mode,
                           ColumnValues(part(groups[k]), x_col.s), ys(part(groups[k])))]

\* x_col.replace('_', ' ').title()
AxisTitle(col) == Title(Replace(col, "_", " "))

AxisTitles(x_col, y_col) ==
    ("xaxis.title.text" :> AxisTitle(x_col.s)) @@ ("yaxis.title.text" :> AxisTitle(y_col.s))

create_bar_chart(df, config) ==
    LET x_col == Get(config, "x_col", PyNone)
        y_col == Get(config, "y_col", PyNone)
        color == Optional(Get(config, "color_col", PyNone))
    IN  IF ~Truthy(x_col) \/ ~Truthy(y_col) THEN Raised("ValueError")
        ELSE IF ~PxAccepts(df, <<x_col, y_col, color>>) THEN Raised("ValueError")
        ELSE Returned(Figure(
                PxTraces(df, "bar", "", x_col, y_col, color),
                ("title.text" :> y_col.s \o Chars(" by ") \o x_col.s)
                @@ AxisTitles(x_col, y_col)
                @@ ("xaxis.tickangle" :>
                       IF Len(Unique(ColumnValues(df, x_col.s))) > 5 THEN -45 ELSE 0)))

create_line_chart(df, config) ==
    LET x_col == Get(config, "x_col", PyNone)
        y_col == Get(config, "y_col", PyNone)
        color == Optional(Get(config, "color_col", PyNone))
    IN  IF ~Truthy(x_col) \/ ~Truthy(y_col) THEN Raised("ValueError")
        ELSE IF ~HasColumn(df, x_col.s) THEN Raised("KeyError")
        ELSE IF ~PxAccepts(df, <<x_col, y_col, color>>) THEN Raised("ValueError")
        ELSE Returned(Figure(
                PxTraces(sort_values(df, x_col.s), "scatter", "lines+markers",
                         x_col, y_col, color),
                ("title.text" :> y_col.s \o Chars(" Trend over ") \o x_col.s)
                @@ AxisTitles(x_col, y_col)))

create_scatter_plot(df, config) ==
    LET x_col == Get(config, "x_col", PyNone)
        y_col == Get(config, "y_col", PyNone)
        size == Optional(Get(config, "size_col", PyNone))
        color == Optional(Get(config, "color_col", PyNone))
    IN  IF ~Truthy(x_col) \/ ~Truthy(y_col) THEN Raised("ValueError")
        ELSE IF ~PxAccepts(df, <<x_col, y_col, size, color>>) THEN Raised("ValueError")
        ELSE IF df.dtypes[x_col.s] # "number" \/ df.dtypes[y_col.s] # "number"
             THEN Raised("TypeError")       \* np.polyfit of a column of strings
        ELSE Returned(Figure(
                PxTraces(df, "scatter", "markers", x_col, y_col, color)
                \o <<Trace("scatter", Chars("Trend"), "lines",
                           ColumnValues(df, x_col.s), <<>>)>>,
                ("title.text" :> y_col.s \o Chars(" vs ") \o x_col.s)
                @@ AxisTitles(x_col, y_col)))

\* px.pie and px.treemap of the sums of value_col for each label
label_value_chart(df, config, type, title) ==
    LET label_col == Get(config, "label_col", PyNone)
        value_col == Get(config, "value_col", PyNone)
    IN  IF ~Truthy(label_col) \/ ~Truthy(value_col) THEN Raised("ValueError")
        ELSE IF ~HasColumn(df, label_col.s) \/ ~HasColumn(df, value_col.s)
             THEN Raised("KeyError")
        ELSE LET data == groupby_sum(df, label_col.s, value_col.s)
             IN  Returned(Figure(
                    <<Trace(type, <<>>, "", ColumnValues(data, label_col.s),
                            ColumnValues(data, value_col.s))>>,
                    "title.text" :> title \o value_col.s \o Chars(" by ") \o label_col.s))

create_pie_chart(df, config) ==
    label_value_chart(df, config, "pie", Chars("Distribution of "))

create_histogram(df, config) ==
    LET x_col == Get(config, "x_col", PyNone)
        color == Optional(Get(config, "color_col", PyNone))
    IN  IF ~Truthy(x_col) THEN Raised("ValueError")
        ELSE IF ~PxAccepts(df, <<x_col, color>>) THEN Raised("ValueError")
        ELSE IF df.dtypes[x_col.s] # "number"
             THEN Raised("TypeError")       \* Series.mean() of a column of strings
        ELSE Returned(Figure(
                PxTraces(df, "histogram", "", x_col, PyNone, color),
                ("title.text" :> Chars("Distribution of ") \o x_col.s)
                @@ ("xaxis.title.text" :> AxisTitle(x_col.s))
                @@ ("yaxis.title.text" :> Chars("Frequency"))
                @@ ("shapes" :> <<[x |-> Mean(ColumnValues(df, x_col.s)), dash |-> "dash",
                                   color |-> "red"],
                                  [x |-> Median(df, x_col.s), dash |-> "dot",
                                   color |-> "blue"]>>)))

\* _create_box_plot asking for the y column in place of the x column
create_box_plot_of_y(df, config) ==
    LET y_col == Get(config, "y_col", PyNone)
    IN  IF ~Truthy(y_col) THEN Raised("ValueError")
        ELSE IF ~PxAccepts(df, <<y_col>>) THEN Raised("ValueError")
        ELSE Returned(Figure(
                <<Trace("box", <<>>, "", <<>>, ColumnValues(df, y_col.s))>>,
                ("title.text" :> Chars("Distribution of ") \o y_col.s)
                @@ ("yaxis.title.text" :> AxisTitle(y_col.s))))

create_box_plot(df, config) ==
    LET x_col == Get(config, "x_col", PyNone)
        color == Optional(Get(config, "color_col", PyNone))
    IN  IF ~Truthy(x_col) THEN Raised("ValueError")
        ELSE IF ~PxAccepts(df, <<x_col, color>>) THEN Raised("ValueError")
        ELSE Returned(Figure(
                IF color # PyNone
                THEN LET groups == Unique(ColumnValues(df, color.s))
                         part(g) == [df EXCEPT !.rows =
                                        SelectSeq(df.rows, LAMBDA r : r[color.s] = g)]
                     IN  [k \in 1..Len(groups) |->
                             Trace("box", CellText(df, color.s, groups[k]), "",
                                   ColumnValues(part(groups[k]), color.s),
                                   ColumnValues(part(groups[k]), x_col.s))]
                ELSE <<Trace("box", <<>>, "", <<>>, ColumnValues(df, x_col.s))>>,
                ("title.text" :>
                    IF color # PyNone
                    THEN Chars("Distribution of ") \o x_col.s \o Chars(" by ") \o color.s
                    ELSE Chars("Distribution of ") \o x_col.s)
                @@ ("yaxis.title.text" :> AxisTitle(x_col.s))))

create_heatmap(df, config) ==
    LET numeric == NumericColumns(df)
    IN  IF numeric = <<>> THEN Raised("ValueError")
        ELSE Returned(Figure(
                <<Trace("heatmap", <<>>, "", numeric, numeric)>>,
                ("title.text" :> Chars("Correlation Heatmap"))
                @@ ("xaxis.title.text" :> Chars("Variables"))
                @@ ("yaxis.title.text" :> Chars("Variables"))))

create_area_chart(df, config) ==
    LET x_col == Get(config, "x_col", PyNone)
        y_col == Get(config, "y_col", PyNone)
        color_col == Get(config, "color_col", PyNone)
    IN  IF ~Truthy(x_col) \/ ~Truthy(y_col) THEN Raised("ValueError")
        ELSE IF ~HasColumn(df, x_col.s) THEN Raised("KeyError")
        ELSE IF Optional(color_col) # PyNone
             THEN IF ~PxAccepts(df, <<x_col, y_col, color_col>>) THEN Raised("ValueError")
                  ELSE Returned(Figure(
                          PxTraces(sort_values(df, x_col.s), "scatter", "lines",
                                   x_col, y_col, color_col),
                          ("title.text" :> y_col.s \o Chars(" Area over ") \o x_col.s)
                          @@ AxisTitles(x_col, y_col)))
        ELSE IF ~HasColumn(df, y_col.s) THEN Raised("KeyError")
        ELSE LET df_sorted == sort_values(df, x_col.s)
             IN  Returned(Figure(
                    <<Trace("scatter", y_col.s, "lines", ColumnValues(df_sorted, x_col.s),
                            ColumnValues(df_sorted, y_col.s))>>,
                    ("title.text" :> y_col.s \o Chars(" Area over ") \o x_col.s)
                    @@ AxisTitles(x_col, y_col)))

create_treemap(df, config) ==
    label_value_chart(df, config, "treemap", Chars("Treemap of "))

\* The keys of chart_methods.
ChartTypes ==
    {"Bar Chart", "Line Chart", "Scatter Plot", "Pie Chart", "Histogram", "Box Plot",
     "Heatmap", "Area Chart", "Treemap"}

\* chart_methods[chart_type](df, config)
chart_methods(chart_type, df, config) ==
    CASE chart_type = "Bar Chart" -> create_bar_chart(df, config)
      [] chart_type = "Line Chart" -> create_line_chart(df, config)
      [] chart_type = "Scatter Plot" -> create_scatter_plot(df, config)
      [] chart_type = "Pie Chart" -> create_pie_chart(df, config)
      [] chart_type = "Histogram" -> create_histogram(df, config)
      [] chart_type = "Box Plot" -> create_box_plot(df, config)
      [] chart_type = "Heatmap" -> create_heatmap(df, config)
      [] chart_type = "Area Chart" -> create_area_chart(df, config)
      [] chart_type = "Treemap" -> create_treemap(df, config)

\* self.chart_themes['professional']
professional ==
    [k \in {"paper_bgcolor", "plot_bgcolor"} |-> "white"]
    @@ ("font.family" :> "Arial, sans-serif") @@ ("font.size" :> 12)
    @@ ("font.color" :> "#2e2e2e")
    @@ ("title.font.size" :> 16) @@ ("title.font.color" :> "#1e1e1e")
    @@ [k \in {"xaxis.gridcolor", "yaxis.gridcolor"} |-> "#e6e6e6"]
    @@ [k \in {"xaxis.linecolor", "yaxis.linecolor"} |-> "#d1d1d1"]

\* height=500, margin=dict(l=50, r=50, t=80, b=50), showlegend=True
Sizing ==
    ("height" :> 500) @@ [k \in {"margin.l", "margin.r", "margin.b"} |-> 50]
    @@ ("margin.t" :> 80) @@ ("showlegend" :> TRUE)

\* create_chart with the sizing left off the figure
create_chart_unsized(df, chart_type, config) ==
    IF Empty(df) THEN Returned(PyNone)
    ELSE IF chart_type \notin ChartTypes THEN Returned(PyNone)
    ELSE LET chart == chart_methods(chart_type, df, config)
         IN  IF chart.raised THEN Returned(PyNone)
             ELSE Returned(update_layout(chart.value, professional))

\* create_chart with the exception of a chart method escaping it
create_chart_propagating(df, chart_type, config) ==
    IF Empty(df) THEN Returned(PyNone)
    ELSE IF chart_type \notin ChartTypes THEN Returned(PyNone)
    ELSE LET chart == chart_methods(chart_type, df, config)
         IN  IF chart.raised THEN chart
             ELSE Returned(update_layout(update_layout(chart.value, professional), Sizing))

\* ChartBuilder.create_chart(df, chart_type, config): the figure, or None
\* when the frame is empty, the type is not supported or a chart method
\* raised.  A figure is true in `if chart:`.
create_chart(df, chart_type, config) ==
    IF Empty(df) THEN Returned(PyNone)
    ELSE IF chart_type \notin ChartTypes THEN Returned(PyNone)
    ELSE LET chart == chart_methods(chart_type, df, config)
         IN  IF chart.raised THEN Returned(PyNone)
             ELSE Returned(update_layout(update_layout(chart.value, professional), Sizing))

\* df.select_dtypes(include=['object']).columns.tolist()
CategoricalColumns(df) == SelectSeq(df.columns, LAMBDA c : df.dtypes[c] = "object")

\* df.select_dtypes(include=['datetime64']).columns.tolist()
DateColumns(df) == SelectSeq(df.columns, LAMBDA c : df.dtypes[c] = "datetime")

\* the distribution charts recommended only for a pair of numeric columns
RecommendsDistributionOfPair(numeric_cols) == Len(numeric_cols) >= 2

\* if numeric_cols: (the distribution analysis)
RecommendsDistribution(numeric_cols) == numeric_cols # <<>>

\* ChartBuilder.get_chart_recommendations(df)
get_chart_recommendations(df) ==
    LET numeric_cols == NumericColumns(df)
        categorical_cols == CategoricalColumns(df)
        date_cols == DateColumns(df)
    IN  (IF date_cols # <<>> /\ numeric_cols # <<>>
         THEN <<[type |-> "Line Chart", reason |-> "Ideal for showing trends over time",
                 x_col |-> date_cols[1], y_col |-> numeric_cols[1]]>>
         ELSE <<>>)
        \o (IF categorical_cols # <<>> /\ numeric_cols # <<>>
            THEN <<[type |-> "Bar Chart", reason |-> "Great for comparing categories",
                    x_col |-> categorical_cols[1], y_col |-> numeric_cols[1]],
                   [type |-> "Pie Chart", reason |-> "Shows proportion of categories",
                    label_col |-> categorical_cols[1], value_col |-> numeric_cols[1]]>>
            ELSE <<>>)
        \o (IF Len(numeric_cols) >= 2
            THEN <<[type |-> "Scatter Plot",
                    reason |-> "Reveals relationships between variables",
                    x_col |-> numeric_cols[1], y_col |-> numeric_cols[2]],
                   [type |-> "Heatmap",
                    reason |-> "Shows correlations between all numeric variables",
                    note |-> "Correlation analysis"]>>
            ELSE <<>>)
        \o (IF RecommendsDistribution(numeric_cols)
            THEN <<[type |-> "Histogram", reason |-> "Shows data distribution",
                    x_col |-> numeric_cols[1]],
                   [type |-> "Box Plot", reason |-> "Identifies outliers and quartiles",
                    x_col |-> numeric_cols[1]]>>
            ELSE <<>>)

(***************************************************************************)
(* The charts asked of the chart builder                                   *)
(***************************************************************************)

MaxRows == 2            \* most rows of a frame
MaxFrameColumns == 3    \* most columns of a frame made to vary the column types

zone == Chars("zone")
usage == Chars("usage")
avg_bill == Chars("avg_bill")
ghost == Chars("ghost")         \* a name that is no column of any frame
reading_date == Chars("reading_date")
active == Chars("active")

Row(z, u, b) == (zone :> Chars(z)) @@ (usage :> u) @@ (avg_bill :> b)

SampleRows == {Row("A", 10, 3), Row("A", 5, 4), Row("B", 3, 4)}

Dtypes ==
    (zone :> "object") @@ (usage :> "number") @@ (avg_bill :> "number")
    @@ (reading_date :> "datetime") @@ (active :> "bool")

\* The frame of the given columns of the rows.
Frame(columns, rows) ==
    DataFrame(columns, [c \in Range(columns) |-> Dtypes[c]],
              [i \in 1..Len(rows) |-> [c \in Range(columns) |-> rows[i][c]]])

\* Frames with a label and two measures, and frames of labels alone.
Frames ==
    {Frame(columns, rows) : columns \in {<<zone, usage, avg_bill>>, <<zone>>},
                            rows \in SeqsUpTo(SampleRows, MaxRows)}

\* A row with a cell for every column of Dtypes.
TypedRow == Row("A", 10, 3) @@ (reading_date :> 1) @@ (active :> TRUE)

\* Frames of every composition of column types, with and without a row.
TypedFrames ==
    {Frame(columns, rows) :
        columns \in SeqsNoRep({zone, usage, avg_bill, reading_date, active}, MaxFrameColumns),
        rows \in {<<>>, <<TypedRow>>}}

Config(x, y, label, value, color) ==
    [x_col |-> x, y_col |-> y, label_col |-> label, value_col |-> value,
     color_col |-> color, size_col |-> PyMissing]

XChoices == {PyMissing, PyStr(<<>>), PyStr(zone), PyStr(usage), PyStr(ghost)}
YChoices == {PyMissing, PyNone, PyStr(usage)}
ColorChoices == {PyMissing, PyStr(Chars("None")), PyStr(zone)}
LabelChoices == {PyMissing, PyStr(<<>>), PyStr(zone)}
ValueChoices == {PyMissing, PyStr(usage), PyStr(ghost)}

XYTypes == {"Bar Chart", "Line Chart", "Scatter Plot", "Area Chart"}
LabelValueTypes == {"Pie Chart", "Treemap"}
XTypes == {"Histogram", "Box Plot"}

\* The roles a chart type requires.
RequiredRoles(chart_type) ==
    CASE chart_type \in XYTypes -> {"x_col", "y_col"}
      [] chart_type \in LabelValueTypes -> {"label_col", "value_col"}
      [] chart_type \in XTypes -> {"x_col"}
      [] OTHER -> {}

ChartRequest(df, chart_type, config) ==
    [df |-> df, chart_type |-> chart_type, config |-> config]

ChartRequests ==
    {ChartRequest(df, t, Config(x, y, PyMissing, PyMissing, c)) :
        df \in Frames, t \in XYTypes, x \in XChoices, y \in YChoices, c \in ColorChoices}
    \cup {ChartRequest(df, t, Config(PyMissing, PyMissing, l, v, PyMissing)) :
        df \in Frames, t \in LabelValueTypes, l \in LabelChoices, v \in ValueChoices}
    \cup {ChartRequest(df, t, Config(x, PyMissing, PyMissing, PyMissing, c)) :
        df \in Frames, t \in XTypes, x \in XChoices, c \in ColorChoices}
    \cup {ChartRequest(df, t, Config(PyMissing, PyMissing, PyMissing, PyMissing, PyMissing)) :
        df \in Frames, t \in {"Heatmap", "Radar Chart"}}
    \cup {ChartRequest(df, "Heatmap",
                       Config(PyMissing, PyMissing, PyMissing, PyMissing, PyMissing)) :
        df \in TypedFrames}

NoRequest ==
    ChartRequest(DataFrame(<<>>, <<>>, <<>>), "",
                 Config(PyMissing, PyMissing, PyMissing, PyMissing, PyMissing))

ChartIdle ==
    /\ chart_request = NoRequest
    /\ cpc = "idle"
    /\ chart_result = Returned(PyNone)
    /\ recommendations = <<>>

(***************************************************************************)
(* ReportGenerator (src/report_generator.py)                               *)
(*                                                                         *)
(* A report is the list of its sections in document order, each with its   *)
(* kind and what it shows.  A number the code computes in floating point   *)
(* is the fraction num/den it stands for, and nan is the fraction with     *)
(* denominator 0.  The time stamps, the memory usage and the tables of     *)
(* DataFrame.describe() are left out of the sections.                      *)
(***************************************************************************)

\* The frame with the given cells null; a cell is <<row number, column>>.
WithNulls(df, nulls) == [df EXCEPT !.nulls = nulls]

\* df.isnull() at one cell
IsNull(df, i, col) == <<i, col>> \in df.nulls

\* df[col].isnull().sum()
NullCount(df, col) == Cardinality({i \in 1..Len(df.rows) : IsNull(df, i, col)})

\* df.isnull().sum().sum()
TotalNulls(df) == Cardinality(df.nulls)

\* df[col].dropna()
NonNull(df, col) ==
    LET kept == SelectSeq([i \in 1..Len(df.rows) |-> i], LAMBDA i : ~IsNull(df, i, col))
    IN  [k \in 1..Len(kept) |-> df.rows[kept[k]][col]]

\* missing_data[missing_data > 0].index with the columns of most nulls first
ColumnsWithNullsBySeverity(df) ==
    Flatten([n \in 1..Len(df.rows) |->
                SelectSeq(df.columns, LAMBDA c : NullCount(df, c) = Len(df.rows) + 1 - n)])

\* missing_data[missing_data > 0].index
ColumnsWithNulls(df) == SelectSeq(df.columns, LAMBDA c : NullCount(df, c) > 0)

Frac(num, den) == [num |-> num, den |-> den]
NaN == Frac(0, 0)

\* a + b for two fractions
FracAdd(a, b) ==
    IF a.den = 0 \/ b.den = 0 THEN NaN
    ELSE Frac(a.num * b.den + b.num * a.den, a.den * b.den)

\* Series.mean(), Series.min(), Series.max(): the nulls skipped, nan when
\* nothing is left
ColumnMean(df, col) ==
    LET values == NonNull(df, col)
    IN  IF values = <<>> THEN NaN ELSE Frac(SumOf(values), Len(values))

ColumnMin(df, col) ==
    LET values == Range(NonNull(df, col))
    IN  IF values = {} THEN NaN
        ELSE Frac(CHOOSE v \in values : \A w \in values : v <= w, 1)

ColumnMax(df, col) ==
    LET values == Range(NonNull(df, col))
    IN  IF values = {} THEN NaN
        ELSE Frac(CHOOSE v \in values : \A w \in values : v >= w, 1)

\* df[col].nunique()
NUnique(df, col) == Cardinality(Range(NonNull(df, col)))

\* df[col].mode().iloc[0] if not df[col].mode().empty else "N/A": the most
\* frequent value, the smallest of them when several are
MostCommon(df, col) ==
    LET values == NonNull(df, col)
        times(v) == Cardinality({i \in 1..Len(values) : values[i] = v})
        modes == {v \in Range(values) : \A w \in Range(values) : times(v) >= times(w)}
    IN  IF values = <<>> THEN Chars("N/A")
        ELSE CHOOSE v \in modes : \A w \in modes : v = w \/ StrLess(v, w)

\* f"{x:.1f}" of a fraction that is not negative: the nearest tenth, the
\* even one of two equally near
OneDecimal(x) ==
    IF x.den = 0 THEN Chars("nan")
    ELSE LET q == (10 * x.num) \div x.den
             r == (10 * x.num) % x.den
             tenths == IF 2 * r > x.den \/ (2 * r = x.den /\ q % 2 = 1) THEN q + 1 ELSE q
         IN  IntToStr(tenths \div 10) \o Chars(".") \o IntToStr(tenths % 10)

\* format(value, format_spec) of a number refuses a specification that opens
\* with a colon: ':' can only be a fill character, and then an alignment
\* character has to follow it
FormatRefuses(format_spec) ==
    /\ format_spec # ""
    /\ SubSeq(format_spec, 1, 1) = ":"
    /\ (Len(format_spec) < 2 \/ SubSeq(format_spec, 2, 2) \notin {"<", ">", "=", "^"})

Section(kind, payload) == [kind |-> kind, payload |-> payload]

\* ReportGenerator._generate_insights(df)
generate_insights(df) ==
    IF Empty(df) THEN <<[line |-> "No data available for analysis."]>>
    ELSE LET numeric_cols == NumericColumns(df)
             categorical_cols == CategoricalColumns(df)
         IN  <<[line |-> "Dataset contains", records |-> Len(df.rows),
                columns |-> Len(df.columns)]>>
             \o [k \in 1..(IF Len(numeric_cols) < 3 THEN Len(numeric_cols) ELSE 3) |->
                    [line |-> "Average, Range", column |-> numeric_cols[k],
                     mean |-> ColumnMean(df, numeric_cols[k]),
                     min |-> ColumnMin(df, numeric_cols[k]),
                     max |-> ColumnMax(df, numeric_cols[k])]]
             \o [k \in 1..(IF Len(categorical_cols) < 2 THEN Len(categorical_cols) ELSE 2) |->
                    [line |-> "unique values, most common", column |-> categorical_cols[k],
                     unique_count |-> NUnique(df, categorical_cols[k]),
                     most_common |-> MostCommon(df, categorical_cols[k])]]
             \o (IF TotalNulls(df) > 0
                 THEN <<[line |-> "Missing data found in",
                         columns |-> Len(ColumnsWithNulls(df))]>>
                 ELSE <<[line |-> "No missing data detected"]>>)

\* numeric_df.mean().mean(): the mean of the column means that are not nan
MeanOfMeans(df) ==
    LET means == SelectSeq([k \in 1..Len(NumericColumns(df)) |->
                               ColumnMean(df, NumericColumns(df)[k])],
                           LAMBDA m : m.den # 0)
        total[k \in 0..Len(means)] ==
            IF k = 0 THEN Frac(0, 1) ELSE FracAdd(total[k - 1], means[k])
    IN  IF means = <<>> THEN NaN
        ELSE Frac(total[Len(means)].num, total[Len(means)].den * Len(means))

\* not numeric_df.empty
HasNumericData(df) == NumericColumns(df) # <<>> /\ Len(df.rows) > 0

\* ReportGenerator._generate_summary_stats(df)
generate_summary_stats(df) ==
    IF HasNumericData(df)
    THEN [total_records |-> Len(df.rows),
          numeric_columns |-> Len(NumericColumns(df)),
          avg_values |-> MeanOfMeans(df),
          data_completeness |->
              Frac((Len(df.rows) * Len(df.columns) - TotalNulls(df)) * 100,
                   Len(df.rows) * Len(df.columns))]
    ELSE [total_records |-> Len(df.rows), numeric_columns |-> 0,
          avg_values |-> Frac(0, 1), data_completeness |-> Frac(100, 1)]

\* The metrics of _generate_metric_cards: key, label, format_spec.
Metrics ==
    <<<<"total_records", "Total Records", ":,">>,
      <<"numeric_columns", "Numeric Columns", "">>,
      <<"avg_values", "Average Value", ":.2f">>,
      <<"data_completeness", "Data Completeness", ":.1f%">>>>

\* ReportGenerator._generate_metric_cards(stats): the cards, or the
\* ValueError of the first f"{stats[key]:{format_spec}}" that is refused
generate_metric_cards(stats) ==
    LET shown == SelectSeq(Metrics, LAMBDA m : m[1] \in DOMAIN stats)
    IN  IF \E k \in 1..Len(shown) : FormatRefuses(shown[k][3])
        THEN Raised("ValueError: Invalid format specifier")
        ELSE Returned([k \in 1..Len(shown) |->
                          [label |-> shown[k][2], value |-> stats[shown[k][1]]]])

\* ReportGenerator._generate_data_preview(df, max_rows)
generate_data_preview(df, max_rows) ==
    IF Empty(df) THEN [text |-> "No data to display.", rows |-> <<>>, total |-> 0]
    ELSE [text |-> IF Len(df.rows) > max_rows THEN "Showing first" ELSE "",
          rows |-> SubSeq(df.rows, 1, IF Len(df.rows) > max_rows THEN max_rows
                                      ELSE Len(df.rows)),
          total |-> Len(df.rows)]

\* plotly.express drew the chart: no failure of it was arranged
Drawn(chart, px_failures) == chart \notin px_failures

\* ReportGenerator._generate_chart_section(df): the charts embedded
generate_chart_section(df, px_failures) ==
    IF Empty(df) THEN <<>>
    ELSE LET numeric_cols == NumericColumns(df)
             categorical_cols == CategoricalColumns(df)
         IN  <<Section("chart",
                 (IF numeric_cols # <<>> /\ Drawn("histogram", px_failures)
                  THEN <<[chart |-> "histogram", x |-> numeric_cols[1]]>> ELSE <<>>)
                 \o (IF categorical_cols # <<>> /\ numeric_cols # <<>>
                        /\ Drawn("bar", px_failures)
                     THEN <<[chart |-> "bar", x |-> categorical_cols[1],
                             y |-> numeric_cols[1]]>>
                     ELSE <<>>))>>

\* The chart_configs of _generate_comprehensive_charts.
chart_configs == <<"histogram", "bar", "scatter", "box">>

\* One turn of the loop of _generate_comprehensive_charts.
ComprehensiveChart(df, chart_type, px_failures) ==
    LET numeric_cols == NumericColumns(df)
        categorical_cols == CategoricalColumns(df)
        built(chart) == IF Drawn(chart_type, px_failures) THEN <<chart>> ELSE <<>>
    IN  IF chart_type = "histogram" /\ numeric_cols # <<>>
        THEN built([chart |-> "histogram", x |-> numeric_cols[1]])
        ELSE IF chart_type = "bar" /\ categorical_cols # <<>> /\ numeric_cols # <<>>
        THEN built([chart |-> "bar", x |-> categorical_cols[1], y |-> numeric_cols[1]])
        ELSE IF chart_type = "scatter" /\ Len(numeric_cols) >= 2
        THEN built([chart |-> "scatter", x |-> numeric_cols[1], y |-> numeric_cols[2]])
        ELSE IF chart_type = "box" /\ numeric_cols # <<>>
        THEN built([chart |-> "box", y |-> numeric_cols[1]])
        ELSE <<>>

\* _generate_comprehensive_charts with one try around the whole loop: the
\* failure of a chart leaves the section without any chart
generate_comprehensive_charts_one_try(df, px_failures) ==
    IF Empty(df) THEN <<>>
    ELSE IF \E k \in 1..Len(chart_configs) :
               /\ ComprehensiveChart(df, chart_configs[k], {}) # <<>>
               /\ chart_configs[k] \in px_failures
         THEN <<Section("chart", <<>>)>>
    ELSE <<Section("chart",
              Flatten([k \in 1..Len(chart_configs) |->
                          ComprehensiveChart(df, chart_configs[k], px_failures)]))>>

\* ReportGenerator._generate_comprehensive_charts(df): the charts embedded
generate_comprehensive_charts(df, px_failures) ==
    IF Empty(df) THEN <<>>
    ELSE <<Section("chart",
              Flatten([k \in 1..Len(chart_configs) |->
                          ComprehensiveChart(df, chart_configs[k], px_failures)]))>>

\* The row count above which a dataset is large.
LargeDataset == 10000

\* len(df) > 10000 holding for ten thousand rows already
IsLargeFrom(df) == Len(df.rows) >= LargeDataset

\* len(df) > 10000
IsLarge(df) == Len(df.rows) > LargeDataset

\* ReportGenerator._generate_recommendations(df): the titles
generate_recommendations(df) ==
    IF Empty(df) THEN <<"No recommendations available for empty dataset.">>
    ELSE LET recommended ==
                 (IF TotalNulls(df) > 0 THEN <<"Data Quality Improvement">> ELSE <<>>)
                 \o (IF IsLarge(df) THEN <<"Performance Optimization">> ELSE <<>>)
                 \o (IF Len(NumericColumns(df)) >= 2 THEN <<"Advanced Analysis">> ELSE <<>>)
         IN  IF recommended = <<>> THEN <<"Data Exploration">> ELSE recommended

\* ReportGenerator._generate_detailed_statistics(df)
generate_detailed_statistics(df) ==
    IF Empty(df) THEN <<>>
    ELSE <<Section("statistics",
              [numeric |-> NumericColumns(df),
               categorical |->
                  [k \in 1..Len(CategoricalColumns(df)) |->
                      [Column |-> CategoricalColumns(df)[k],
                       Unique |-> NUnique(df, CategoricalColumns(df)[k]),
                       MostCommon |-> MostCommon(df, CategoricalColumns(df)[k]),
                       Missing |-> NullCount(df, CategoricalColumns(df)[k])]]])>>

\* ReportGenerator._generate_dataset_overview(df): the columns of each dtype
generate_dataset_overview(df) ==
    {[dtype |-> d, count |-> Cardinality({c \in Range(df.columns) : df.dtypes[c] = d})] :
        d \in {df.dtypes[c] : c \in Range(df.columns)}}

\* (values / len(df) * 100).round(2) of one count: the percentage in
\* hundredths, the nearest one, a tie going to the even one
RoundedPercent(count, rows) ==
    LET q == (count * 10000) \div rows
        r == (count * 10000) % rows
    IN  Frac(IF 2 * r > rows \/ (2 * r = rows /\ q % 2 = 1) THEN q + 1 ELSE q, 100)

\* ReportGenerator._generate_data_quality_section(df); missing_df holds the
\* table of the columns with missing data when the section has one
generate_data_quality_section(df) ==
    LET total_cells == Len(df.rows) * Len(df.columns)
        missing == TotalNulls(df)
        missing_cols == ColumnsWithNulls(df)
    IN  [completeness |-> OneDecimal(Frac((total_cells - missing) * 100, total_cells)),
         missing |-> missing,
         total_cells |-> total_cells,
         missing_df |->
             IF missing > 0
             THEN <<[k \in 1..Len(missing_cols) |->
                       [Column |-> missing_cols[k],
                        MissingCount |-> NullCount(df, missing_cols[k]),
                        MissingPercent |-> RoundedPercent(NullCount(df, missing_cols[k]),
                                                          Len(df.rows))]]>>
             ELSE <<>>]

\* ReportGenerator._get_date_range(df)
get_date_range(df) ==
    LET date_cols == DateColumns(df)
    IN  IF date_cols = <<>> THEN [text |-> "No date columns detected"]
        ELSE IF NonNull(df, date_cols[1]) = <<>> THEN [text |-> "Date range unavailable"]
        ELSE [text |-> "to", min |-> ColumnMin(df, date_cols[1]).num,
              max |-> ColumnMax(df, date_cols[1]).num]

\* ReportGenerator._generate_trend_analysis(df, date_col)
generate_trend_analysis(df, date_col) ==
    [date_range |-> get_date_range(df), points |-> Len(df.rows),
     days |-> IF NonNull(df, date_col) = <<>> THEN NaN
              ELSE Frac(ColumnMax(df, date_col).num - ColumnMin(df, date_col).num, 1)]

\* ReportGenerator._generate_period_summary(df)
generate_period_summary(df) ==
    IF DateColumns(df) = <<>>
    THEN [text |-> "No date columns available for period analysis.", records |-> 0]
    ELSE [text |-> "Total Records", records |-> Len(df.rows)]

executive_summary == Chars("executive_summary")
detailed_analysis == Chars("detailed_analysis")
trend_report == Chars("trend_report")

\* The keys of self.report_templates.
report_templates == {executive_summary, detailed_analysis, trend_report}

Report(template, title, sections) ==
    [kind |-> "report", template |-> template, title |-> title, sections |-> sections,
     message |-> ""]

\* ReportGenerator._error_report(error_message)
error_report(error_message) ==
    [kind |-> "error", template |-> <<>>, title |-> Chars("Report Generation Error"),
     sections |-> <<>>, message |-> error_message]

\* ReportGenerator._executive_summary_template
executive_summary_template(df, title, include_charts, include_statistics, px_failures) ==
    LET insights == generate_insights(df)
        summary_stats == generate_summary_stats(df)
        charts_html == IF include_charts /\ ~Empty(df)
                       THEN generate_chart_section(df, px_failures) ELSE <<>>
        cards == generate_metric_cards(summary_stats)
    IN  IF cards.raised THEN cards
        ELSE Returned(Report(executive_summary, title,
                <<Section("metrics", cards.value), Section("insights", insights)>>
                \o charts_html
                \o <<Section("dataPreview", generate_data_preview(df, 10)),
                     Section("recommendations", generate_recommendations(df))>>))

\* ReportGenerator._detailed_analysis_template
detailed_analysis_template(df, title, include_charts, include_statistics, px_failures) ==
    LET detailed_stats == IF include_statistics THEN generate_detailed_statistics(df)
                          ELSE <<>>
        charts_html == IF include_charts /\ ~Empty(df)
                       THEN generate_comprehensive_charts(df, px_failures) ELSE <<>>
    IN  Returned(Report(detailed_analysis, title,
            <<Section("overview", generate_dataset_overview(df))>>
            \o detailed_stats
            \o <<Section("dataPreview", generate_data_preview(df, 50))>>
            \o charts_html
            \o <<Section("qualityAssessment", generate_data_quality_section(df))>>))

\* ReportGenerator._trend_report_template; _generate_trend_charts is
\* _generate_chart_section
trend_report_template(df, title, include_charts, include_statistics, px_failures) ==
    LET date_columns == DateColumns(df)
        trend_analysis ==
            IF date_columns # <<>>
            THEN [text |-> "Temporal Analysis Results",
                  analysis |-> <<generate_trend_analysis(df, date_columns[1])>>]
            ELSE [text |-> "No time-based columns detected for trend analysis.",
                  analysis |-> <<>>]
        charts_html == IF include_charts /\ ~Empty(df)
                       THEN generate_chart_section(df, px_failures) ELSE <<>>
    IN  Returned(Report(trend_report, title,
            <<Section("meta", get_date_range(df)), Section("trend", trend_analysis)>>
            \o charts_html
            \o <<Section("periodSummary", generate_period_summary(df))>>))

\* template_func(df, title, include_charts, include_statistics)
template_func(template, df, title, include_charts, include_statistics, px_failures) ==
    CASE template = executive_summary ->
            executive_summary_template(df, title, include_charts, include_statistics,
                                       px_failures)
      [] template = detailed_analysis ->
            detailed_analysis_template(df, title, include_charts, include_statistics,
                                       px_failures)
      [] template = trend_report ->
            trend_report_template(df, title, include_charts, include_statistics,
                                  px_failures)

\* self.report_templates.get(report_type.lower().replace(' ', '_'),
\*                           self.report_templates['detailed_analysis'])
SelectedTemplate(report_type) ==
    LET key == Replace(Lower(report_type), " ", "_")
    IN  IF key \in report_templates THEN key ELSE detailed_analysis

\* generate_report with the exception of a template escaping it
generate_report_propagating(df, title, report_type, include_charts, include_statistics, px_failures) ==
    IF report_type.kind # "str" THEN Raised("AttributeError")
    ELSE template_func(SelectedTemplate(report_type.s), df, title, include_charts,
                       include_statistics, px_failures)

\* ReportGenerator.generate_report(df, title, report_type, include_charts,
\* include_statistics); px_failures are the charts plotly.express fails to
\* draw during the call
generate_report(df, title, report_type, include_charts, include_statistics, px_failures) ==
    IF report_type.kind # "str"
    THEN Returned(error_report("AttributeError"))       \* None has no lower()
    ELSE LET report_html == template_func(SelectedTemplate(report_type.s), df, title,
                                          include_charts, include_statistics, px_failures)
         IN  IF report_html.raised THEN Returned(error_report(report_html.error))
             ELSE report_html

MaxMinute == 1          \* the latest minute the clock is read at

\* The minutes datetime.now() can fall in; the year changes at the last.
Minutes == 0..MaxMinute
NewYear == MaxMinute

\* datetime.now().year
YearOf(minute) == IF minute < NewYear THEN 2025 ELSE 2026

\* The two readings of the clock a template makes, the second not before
\* the first.
ClockReadings == {now \in Minutes \X Minutes : now[1] <= now[2]}

\* Stamped with the reading of the clock written into every section too
StampedThroughout(document, now) ==
    [document EXCEPT !.sections = [k \in 1..Len(document.sections) |->
                                     document.sections[k] @@ [generated |-> now[1]]]]
    @@ [generated |-> now[1], year |-> YearOf(now[2])]

\* The document with its "Report Generated:" line and the year of its
\* footer: datetime.now().strftime('%B %d, %Y at %I:%M %p') and
\* datetime.now().year
Stamped(document, now) ==
    document @@ [generated |-> now[1], year |-> YearOf(now[2])]

\* generate_report run while the clock reads now: the templates stamp the
\* document, _error_report does not
generate_report_at(df, title, report_type, include_charts, include_statistics, px_failures, now) ==
    LET report_html == generate_report(df, title, report_type, include_charts,
                                       include_statistics, px_failures)
    IN  IF ~report_html.raised /\ report_html.value.kind = "report"
        THEN Returned(Stamped(report_html.value, now))
        ELSE report_html

(***************************************************************************)
(* The reports asked of the report generator                               *)
(***************************************************************************)

MaxReportRows == 2      \* most rows of a frame a report is made of
MaxNulls == 3           \* most null cells of such a frame

ReportRows == {TypedRow, Row("B", 3, 4) @@ (reading_date :> 2) @@ (active :> FALSE)}

ReportColumns ==
    {<<zone>>, <<usage>>, <<zone, usage>>, <<zone, usage, avg_bill>>,
     <<reading_date, usage>>}

\* The sets of at most n cells of the frame.
CellSets(df, n) ==
    {cells \in SUBSET ((1..Len(df.rows)) \X Range(df.columns)) : Cardinality(cells) <= n}

\* Frames of every column composition, with and without rows, with and
\* without null cells.
ReportFrames ==
    UNION {{WithNulls(Frame(columns, rows), nulls) :
               nulls \in CellSets(Frame(columns, rows), MaxNulls)} :
           columns \in ReportColumns, rows \in SeqsUpTo(ReportRows, MaxReportRows)}

\* A frame of n equal rows.
TallFrame(columns, n, nulls) ==
    WithNulls(Frame(columns, [i \in 1..n |-> TypedRow]), nulls)

\* Frames at and just above the row count of a large dataset.
TallFrames ==
    {TallFrame(columns, n, nulls) :
        columns \in {<<zone, usage>>, <<usage, avg_bill>>},
        n \in {LargeDataset, LargeDataset + 1},
        nulls \in {{}, {<<1, usage>>}}}

\* A frame of each kind, to vary the other arguments over.
PlainFrames ==
    {Frame(<<zone, usage, avg_bill>>, <<>>),
     Frame(<<zone, usage, avg_bill>>, <<TypedRow>>),
     Frame(<<reading_date, usage>>, <<TypedRow>>),
     Frame(<<zone>>, <<TypedRow>>)}

ReportTypes ==
    {PyNone} \cup
    {PyStr(Chars(t)) : t \in {"Executive Summary", "executive_summary", "Detailed Analysis",
                              "TREND REPORT", "trend report ", "Summary", ""}}

ChartKinds == {"histogram", "bar", "scatter", "box"}

ReportRequest(call, df, report_type, include_charts, include_statistics, px_failures) ==
    [call |-> call, df |-> df, title |-> Chars("Usage"), report_type |-> report_type,
     include_charts |-> include_charts, include_statistics |-> include_statistics,
     px_failures |-> px_failures]

ReportRequests ==
    {ReportRequest("generate_report", df, t, c, s, {}) :
        df \in PlainFrames, t \in ReportTypes, c \in BOOLEAN, s \in BOOLEAN}
    \cup {ReportRequest("generate_report", df, PyStr(Chars(t)), TRUE, TRUE, {}) :
        df \in ReportFrames, t \in {"Executive Summary", "Detailed Analysis", "Trend Report"}}
    \cup {ReportRequest("generate_report", df, PyStr(Chars(t)), TRUE, s, failures) :
        df \in PlainFrames, t \in {"Executive Summary", "Detailed Analysis", "Trend Report"},
        s \in BOOLEAN, failures \in SUBSET ChartKinds}
    \cup {ReportRequest("generate_summary_stats", df, PyNone, FALSE, FALSE, {}) :
        df \in ReportFrames}
    \cup {ReportRequest("generate_recommendations", df, PyNone, FALSE, FALSE, {}) :
        df \in ReportFrames \cup TallFrames}

NoReportRequest == ReportRequest("", DataFrame(<<>>, <<>>, <<>>), PyNone, FALSE, FALSE, {})

ReportIdle ==
    /\ report_request = NoReportRequest
    /\ rpc = "idle"
    /\ report_result = Returned(<<>>)

(***************************************************************************)
(* Calls of the builders made side by side                                 *)
(* (VisualQueryBuilder.build_query, ChartBuilder.create_chart,             *)
(*  ReportGenerator.generate_report)                                       *)
(***************************************************************************)

MaxCallers == 2         \* how many callers have a call under way at once

Callers == 1..MaxCallers

\* What the __init__ of the three builders stores in self: the keys of
\* query_templates, of color_palettes and of report_templates, the theme
\* of chart_themes, the style sheet.
InitialBuilders ==
    [query_templates |-> {"basic_select", "select_with_where", "select_with_group",
                          "select_with_order", "complex_query"},
     color_palettes |-> {"default", "professional", "corporate", "water_theme"},
     chart_themes |-> [professional |-> professional],
     report_templates |-> report_templates,
     css_styles |-> "<style>"]

Call(method, args) == [method |-> method, args |-> args]

\* A table whose rows come in descending usage.
DescendingFrame == Frame(<<zone, usage, avg_bill>>, <<Row("A", 10, 3), Row("B", 3, 4)>>)

\* The calls a caller makes: of each builder, and of the chart and report
\* builders such that rows are sorted, grouped and counted on the way.
CallRequests ==
    {Call("build_query", s) :
        s \in {Selection(<<readings>>, <<zone_ref>>, <<>>, <<>>, <<one_filter>>, <<zone_ref>>),
               Selection(<<customer_billing, customer_profiles>>, <<usage_gallons_ref>>,
                         <<zone_ref>>, [c \in {usage_gallons_ref} |-> Chars("SUM")],
                         <<>>, <<usage_gallons_ref>>)}}
    \cup {Call("create_chart", r) :
        r \in {ChartRequest(DescendingFrame, "Line Chart",
                            Config(PyStr(usage), PyStr(avg_bill), PyMissing, PyMissing,
                                   PyMissing)),
               ChartRequest(DescendingFrame, "Pie Chart",
                            Config(PyMissing, PyMissing, PyStr(zone), PyStr(usage),
                                   PyMissing))}}
    \cup {Call("generate_report", r) :
        r \in {ReportRequest("generate_report", DescendingFrame,
                             PyStr(Chars("Detailed Analysis")), TRUE, TRUE, {}),
               ReportRequest("generate_report",
                             WithNulls(DescendingFrame, {<<1, usage>>}),
                             PyStr(Chars("Trend Report")), TRUE, TRUE, {})}}

NoCallMade == [request |-> Call("", <<>>), pc |-> "idle", result |-> Returned(<<>>)]

CallsIdle ==
    /\ builders = InitialBuilders
    /\ inputs = [c \in Callers |-> <<>>]
    /\ calls = [c \in Callers |-> NoCallMade]

(***************************************************************************)
(* The session of the application: the query executed, its results, the   *)
(* report made of them (SQLReportGenerator, src/app.py;                    *)
(* DatabaseManager.execute_query, src/database.py)                         *)
(***************************************************************************)

IsSpace(ch) == ch \in {" ", "\n", "\t"}

RECURSIVE LStrip(_)
LStrip(s) == IF s # <<>> /\ IsSpace(s[1]) THEN LStrip(Tail(s)) ELSE s

RECURSIVE RStrip(_)
RStrip(s) ==
    IF s # <<>> /\ IsSpace(s[Len(s)]) THEN RStrip(SubSeq(s, 1, Len(s) - 1)) ELSE s

\* str.strip()
Strip(s) == RStrip(LStrip(s))

\* DatabaseManager.execute_query(query): engine tells whether self.engine
\* is set, read_sql is the outcome of pd.read_sql_query; a failure is
\* logged and raised again
db_execute_query(query, engine, read_sql) ==
    IF ~engine THEN Raised("Database engine not initialized") ELSE read_sql

\* A st.error or st.success put on the page.
Message(level, text, detail, rows) ==
    [level |-> level, text |-> text, detail |-> detail, rows |-> rows]

\* What a call of the database manager came to, as the log keeps it.
Logged(outcome) == [raised |-> outcome.raised, error |-> outcome.error]

\* execute_query calling the database manager once more when it failed
execute_query_retrying(query, results, engine, read_sql) ==
    IF Strip(query) = <<>>
    THEN [query_results |-> results, db_log |-> <<>>,
          messages |-> <<Message("error", "Please enter a SQL query", "", 0)>>]
    ELSE LET first == db_execute_query(query, engine, read_sql[1])
             result_df == IF first.raised THEN db_execute_query(query, engine, read_sql[2])
                          ELSE first
             db_log == IF first.raised THEN <<Logged(first), Logged(result_df)>>
                       ELSE <<Logged(first)>>
         IN  IF result_df.raised
             THEN [query_results |-> results, db_log |-> db_log,
                   messages |-> <<Message("error", "Query execution failed: ",
                                          result_df.error, 0)>>]
             ELSE [query_results |-> result_df.value, db_log |-> db_log,
                   messages |-> <<Message("success", "Query executed successfully!", "",
                                          Len(result_df.value.rows))>>]

\* SQLReportGenerator.execute_query() with the session holding query and
\* results: the results it leaves in the session, the calls it made of the
\* database manager, the messages it shows.  read_sql lists the outcomes
\* pd.read_sql_query would have, call after call.
execute_query(query, results, engine, read_sql) ==
    IF Strip(query) = <<>>
    THEN [query_results |-> results, db_log |-> <<>>,
          messages |-> <<Message("error", "Please enter a SQL query", "", 0)>>]
    ELSE LET result_df == db_execute_query(query, engine, read_sql[1])
         IN  IF result_df.raised
             THEN [query_results |-> results, db_log |-> <<Logged(result_df)>>,
                   messages |-> <<Message("error", "Query execution failed: ",
                                          result_df.error, 0)>>]
             ELSE [query_results |-> result_df.value, db_log |-> <<Logged(result_df)>>,
                   messages |-> <<Message("success", "Query executed successfully!", "",
                                          Len(result_df.value.rows))>>]

\* render_reports_tab, the preview column: the report shown and offered
\* for download by the run, <<>> when the run shows none
render_reports_tab(results, report) ==
    IF results # PyNone /\ report # <<>> THEN report ELSE <<>>

\* The queries of the saved-query and template buttons.
SessionQueries == {Chars("  "), Chars("SELECT zone"), Chars("SELECT usage")}

\* The rows the database holds for a query.
ResultOf(query) ==
    IF query = Chars("SELECT zone") THEN Frame(<<zone, usage>>, <<TypedRow>>)
    ELSE Frame(<<usage, avg_bill>>, <<TypedRow, TypedRow>>)

\* The outcomes pd.read_sql_query can have for the query, call after call.
ReadSqlOutcomes(query) ==
    [1..2 -> {Returned(ResultOf(query)), Raised("connection refused")}]

\* A run of the script: the button pressed, the calls of the database
\* manager, the messages shown, the report previewed.
Run(clicked, db_log, messages, results, report) ==
    [clicked |-> clicked, db_log |-> db_log, messages |-> messages,
     preview |-> render_reports_tab(results, report)]

NoRun == [clicked |-> "", db_log |-> <<>>, messages |-> <<>>, preview |-> <<>>]

SessionIdle ==
    /\ query_results = PyNone
    /\ current_report = <<>>
    /\ report_source = <<>>
    /\ page = NoRun

(***************************************************************************)
(* The visual query builder of the application                             *)
(* (SQLReportGenerator.render_visual_query_builder, src/app.py)            *)
(***************************************************************************)

customer_id == Chars("customer_id")
total_amount == Chars("total_amount")

\* schema_info.keys(), in the order get_schema_info returns them.
SchemaTables == <<customer_billing, customer_profiles>>

\* [column['name'] for column in schema_info[table]['columns']]
SchemaColumns(table) ==
    IF table = customer_billing THEN <<customer_id, total_amount>>
    ELSE <<customer_id>>

\* col_key = f"{table}.{column['name']}"
col_key(table, column) == table \o Chars(".") \o column

\* Every col_key of the schema.
ColKeys ==
    UNION {{col_key(SchemaTables[i], SchemaColumns(SchemaTables[i])[j]) :
               j \in 1..Len(SchemaColumns(SchemaTables[i]))} : i \in 1..Len(SchemaTables)}

AggNone == Chars("None")

\* The options of the "Aggregate ..." selectbox.
AggOptions == <<AggNone, Chars("SUM"), Chars("COUNT"), Chars("AVG"), Chars("MIN"),
                Chars("MAX")>>

\* The options a user picks from in this model.
AggPicked == {AggOptions[i] : i \in 1..AggOptionsUsed}

\* selected_tables after the table checkboxes are read
SelectedTables(tc) == SelectSeq(SchemaTables, LAMBDA t : t \in tc)

\* selected_columns after the column checkboxes of the selected tables are read
SelectedColumns(tc, cc) ==
    LET tables == SelectedTables(tc) IN
    Flatten([i \in 1..Len(tables) |->
                SelectSeq([j \in 1..Len(SchemaColumns(tables[i])) |->
                              col_key(tables[i], SchemaColumns(tables[i])[j])],
                          LAMBDA k : k \in cc)])

\* AggWidgetRendered without the test of group_by_cols: every selected column
\* gets its selectbox.
AggWidgetRenderedAlways(col, group_by) == TRUE

\* if col not in group_by_cols: the selectbox of col is shown
AggWidgetRendered(col, group_by) == col \notin Range(group_by)

\* The dict aggregations after the loop over selected_columns.
Aggregations(columns, group_by, choice) ==
    [col \in {c \in Range(columns) :
                 AggWidgetRendered(c, group_by) /\ choice[c] # AggNone} |-> choice[col]]

\* The widget state after a run of the script: a widget that the run does not
\* show loses its value, and the multiselect starts anew when its options change.
AfterRun(tc, cc, group_by, choice, columns_before) ==
    LET cc2 == {k \in cc : \E i \in 1..Len(SelectedTables(tc)) :
                              StartsWith(k, SelectedTables(tc)[i] \o Chars("."))}
        columns == SelectedColumns(tc, cc2)
        group_by2 == IF columns = columns_before THEN group_by ELSE <<>>
    IN  [table_checked |-> tc,
         col_checked   |-> cc2,
         group_by_cols |-> group_by2,
         agg_choice    |-> [c \in ColKeys |->
                               IF c \in Range(columns) /\ AggWidgetRendered(c, group_by2)
                               THEN choice[c] ELSE AggNone]]

NoCall == [called |-> FALSE, tables |-> <<>>, columns |-> <<>>, group_by |-> <<>>,
           aggregations |-> <<>>, sql_query |-> NoResult]

UIIdle ==
    /\ table_checked = {}
    /\ col_checked = {}
    /\ group_by_cols = <<>>
    /\ agg_choice = [c \in ColKeys |-> AggNone]
    /\ current_query = <<>>
    /\ builder_call = NoCall

QueryIdle ==
    /\ selection = Selection(<<>>, <<>>, <<>>, <<>>, <<>>, <<>>)
    /\ qpc = "idle"
    /\ query_result = NoResult
    /\ validation_result = NoValidation

\* The session after SQLReportGenerator.__init__.
Init == UIIdle /\ QueryIdle /\ ChartIdle /\ ReportIdle /\ CallsIdle /\ SessionIdle

\* The widget state becomes what a run of the script leaves.
Shown(run) ==
    /\ table_checked' = run.table_checked
    /\ col_checked' = run.col_checked
    /\ group_by_cols' = run.group_by_cols
    /\ agg_choice' = run.agg_choice

\* The user ticks or unticks the checkbox of a table.
ToggleTable(t) ==
    /\ Shown(AfterRun(IF t \in table_checked THEN table_checked \ {t}
                      ELSE table_checked \cup {t},
                      col_checked, group_by_cols, agg_choice,
                      SelectedColumns(table_checked, col_checked)))
    /\ UNCHANGED <<current_query, builder_call>>
    /\ UNCHANGED <<qvars, chartvars, reportvars, callvars, sessionvars>>

\* The user ticks or unticks the checkbox of a column of a selected table.
ToggleColumn(t, c) ==
    /\ t \in table_checked
    /\ c \in Range(SchemaColumns(t))
    /\ LET k == col_key(t, c) IN
       Shown(AfterRun(table_checked,
                      IF k \in col_checked THEN col_checked \ {k}
                      ELSE col_checked \cup {k},
                      group_by_cols, agg_choice,
                      SelectedColumns(table_checked, col_checked)))
    /\ UNCHANGED <<current_query, builder_call>>
    /\ UNCHANGED <<qvars, chartvars, reportvars, callvars, sessionvars>>

\* The user adds a selected column to the "Group By:" multiselect.
SelectGroupBy(k) ==
    /\ k \in Range(SelectedColumns(table_checked, col_checked))
    /\ k \notin Range(group_by_cols)
    /\ Shown(AfterRun(table_checked, col_checked, Append(group_by_cols, k), agg_choice,
                      SelectedColumns(table_checked, col_checked)))
    /\ UNCHANGED <<current_query, builder_call>>
    /\ UNCHANGED <<qvars, chartvars, reportvars, callvars, sessionvars>>

\* The user removes a column from the "Group By:" multiselect.
DeselectGroupBy(k) ==
    /\ k \in Range(group_by_cols)
    /\ Shown(AfterRun(table_checked, col_checked,
                      SelectSeq(group_by_cols, LAMBDA g : g # k), agg_choice,
                      SelectedColumns(table_checked, col_checked)))
    /\ UNCHANGED <<current_query, builder_call>>
    /\ UNCHANGED <<qvars, chartvars, reportvars, callvars, sessionvars>>

\* The user picks an option of the "Aggregate ..." selectbox of a column.
SelectAggregation(k, option) ==
    /\ k \in Range(SelectedColumns(table_checked, col_checked))
    /\ AggWidgetRendered(k, group_by_cols)
    /\ agg_choice[k] # option
    /\ Shown(AfterRun(table_checked, col_checked, group_by_cols,
                      [agg_choice EXCEPT ![k] = option],
                      SelectedColumns(table_checked, col_checked)))
    /\ UNCHANGED <<current_query, builder_call>>
    /\ UNCHANGED <<qvars, chartvars, reportvars, callvars, sessionvars>>

\* The user presses "Generate SQL".
GenerateSQL ==
    LET selected_tables == SelectedTables(table_checked)
        selected_columns == SelectedColumns(table_checked, col_checked)
        aggregations == Aggregations(selected_columns, group_by_cols, agg_choice)
        sql_query == build_query(selected_tables, selected_columns, group_by_cols,
                                 aggregations, <<>>, <<>>)
    IN  /\ selected_tables # <<>>
        /\ selected_columns # <<>>
        /\ builder_call' = [called |-> TRUE, tables |-> selected_tables,
                            columns |-> selected_columns, group_by |-> group_by_cols,
                            aggregations |-> aggregations, sql_query |-> sql_query]
        /\ current_query' = IF sql_query.raised THEN current_query ELSE sql_query.value
        /\ UNCHANGED <<table_checked, col_checked, group_by_cols, agg_choice>>
        /\ UNCHANGED <<qvars, chartvars, reportvars, callvars, sessionvars>>

Next ==
    \/ \E t \in Range(SchemaTables) : ToggleTable(t)
    \/ \E t \in Range(SchemaTables), c \in {customer_id, total_amount} : ToggleColumn(t, c)
    \/ \E k \in ColKeys : SelectGroupBy(k)
    \/ \E k \in ColKeys : DeselectGroupBy(k)
    \/ \E k \in ColKeys, option \in AggPicked : SelectAggregation(k, option)
    \/ GenerateSQL

Spec == Init /\ [][Next]_vars

(***************************************************************************)
(* The query builder called directly                                       *)
(***************************************************************************)

QueryInit ==
    /\ selection \in Selections
    /\ qpc = "ready"
    /\ query_result = NoResult
    /\ validation_result = NoValidation
    /\ UIIdle
    /\ ChartIdle
    /\ ReportIdle
    /\ CallsIdle
    /\ SessionIdle

\* query_builder.build_query(tables, columns, group_by, aggregations, filters, order_by)
BuildQuery ==
    /\ qpc = "ready"
    /\ query_result' = build_query(selection.tables, selection.columns,
                                   selection.group_by, selection.aggregations,
                                   selection.filters, selection.order_by)
    /\ qpc' = "built"
    /\ UNCHANGED <<selection, validation_result>>
    /\ UNCHANGED <<uivars, chartvars, reportvars, callvars, sessionvars>>

\* query_builder.validate_query_components(tables, columns)
ValidateQueryComponents ==
    /\ qpc = "ready"
    /\ validation_result' = validate_query_components(selection.tables, selection.columns)
    /\ qpc' = "validated"
    /\ UNCHANGED <<selection, query_result>>
    /\ UNCHANGED <<uivars, chartvars, reportvars, callvars, sessionvars>>

QueryNext == BuildQuery \/ ValidateQueryComponents

SpecQuery == QueryInit /\ [][QueryNext]_vars

(***************************************************************************)
(* The chart builder called directly                                       *)
(***************************************************************************)

ChartInit ==
    /\ chart_request \in ChartRequests
    /\ cpc = "ready"
    /\ chart_result = Returned(PyNone)
    /\ recommendations = <<>>
    /\ UIIdle
    /\ QueryIdle
    /\ ReportIdle
    /\ CallsIdle
    /\ SessionIdle

\* chart_builder.create_chart(df, chart_type, config)
CreateChart ==
    /\ cpc = "ready"
    /\ chart_result' = create_chart(chart_request.df, chart_request.chart_type,
                                    chart_request.config)
    /\ cpc' = "done"
    /\ UNCHANGED <<chart_request, recommendations>>
    /\ UNCHANGED <<qvars, uivars, reportvars, callvars, sessionvars>>

\* chart_builder.get_chart_recommendations(df)
GetChartRecommendations ==
    /\ cpc = "ready"
    /\ recommendations' = get_chart_recommendations(chart_request.df)
    /\ cpc' = "recommended"
    /\ UNCHANGED <<chart_request, chart_result>>
    /\ UNCHANGED <<qvars, uivars, reportvars, callvars, sessionvars>>

ChartNext == CreateChart \/ GetChartRecommendations

SpecChart == ChartInit /\ [][ChartNext]_vars

(***************************************************************************)
(* The report generator called directly                                    *)
(***************************************************************************)

ReportInit ==
    /\ report_request \in ReportRequests
    /\ rpc = "ready"
    /\ report_result = Returned(<<>>)
    /\ UIIdle
    /\ QueryIdle
    /\ ChartIdle
    /\ CallsIdle
    /\ SessionIdle

\* report_generator.generate_report(df, title, report_type, include_charts,
\*                                  include_statistics)
GenerateReport ==
    /\ rpc = "ready"
    /\ report_request.call = "generate_report"
    /\ \E now \in ClockReadings :
          report_result' = generate_report_at(report_request.df, report_request.title,
                                              report_request.report_type,
                                              report_request.include_charts,
                                              report_request.include_statistics,
                                              report_request.px_failures, now)
    /\ rpc' = "done"
    /\ UNCHANGED report_request
    /\ UNCHANGED <<qvars, uivars, chartvars, callvars, sessionvars>>

\* report_generator._generate_summary_stats(df)
GenerateSummaryStats ==
    /\ rpc = "ready"
    /\ report_request.call = "generate_summary_stats"
    /\ report_result' = Returned(generate_summary_stats(report_request.df))
    /\ rpc' = "done"
    /\ UNCHANGED report_request
    /\ UNCHANGED <<qvars, uivars, chartvars, callvars, sessionvars>>

\* report_generator._generate_recommendations(df)
GenerateRecommendations ==
    /\ rpc = "ready"
    /\ report_request.call = "generate_recommendations"
    /\ report_result' = Returned(generate_recommendations(report_request.df))
    /\ rpc' = "done"
    /\ UNCHANGED report_request
    /\ UNCHANGED <<qvars, uivars, chartvars, callvars, sessionvars>>

ReportNext == GenerateReport \/ GenerateSummaryStats \/ GenerateRecommendations

SpecReport == ReportInit /\ [][ReportNext]_vars

(***************************************************************************)
(* The builders called side by side                                        *)
(***************************************************************************)

CallsInit ==
    /\ builders = InitialBuilders
    /\ \E requests \in [Callers -> CallRequests] :
          /\ calls = [c \in Callers |->
                         [request |-> requests[c], pc |-> "ready", result |-> Returned(<<>>)]]
          /\ inputs = [c \in Callers |-> requests[c].args]
    /\ UIIdle
    /\ QueryIdle
    /\ ChartIdle
    /\ ReportIdle
    /\ SessionIdle

\* The caller's thread enters the method it calls.
BeginCall(c) ==
    /\ calls[c].pc = "ready"
    /\ calls' = [calls EXCEPT ![c].pc = "running"]
    /\ UNCHANGED <<builders, inputs>>
    /\ UNCHANGED <<qvars, uivars, chartvars, reportvars, sessionvars>>

\* build_query returns: it reads its arguments and writes to nothing
ReturnQuery(c) ==
    /\ calls[c].pc = "running"
    /\ calls[c].request.method = "build_query"
    /\ calls' = [calls EXCEPT ![c].pc = "done",
                              ![c].result =
                                  build_query(inputs[c].tables, inputs[c].columns,
                                              inputs[c].group_by, inputs[c].aggregations,
                                              inputs[c].filters, inputs[c].order_by)]
    /\ UNCHANGED <<builders, inputs>>
    /\ UNCHANGED <<qvars, uivars, chartvars, reportvars, sessionvars>>

\* create_chart with the rows of a line or area chart sorted in the
\* caller's table
ReturnChartSortingInPlace(c) ==
    /\ calls[c].pc = "running"
    /\ calls[c].request.method = "create_chart"
    /\ calls' = [calls EXCEPT ![c].pc = "done",
                              ![c].result = create_chart(inputs[c].df, inputs[c].chart_type,
                                                         inputs[c].config)]
    /\ inputs' = [inputs EXCEPT ![c].df =
                     IF inputs[c].chart_type \in {"Line Chart", "Area Chart"}
                     THEN sort_values(inputs[c].df, inputs[c].config.x_col.s)
                     ELSE inputs[c].df]
    /\ UNCHANGED builders
    /\ UNCHANGED <<qvars, uivars, chartvars, reportvars, sessionvars>>

\* create_chart returns: df.sort_values, df.groupby and the figure's
\* update_layout make new objects, the table, the palettes and the theme
\* are read only
ReturnChart(c) ==
    /\ calls[c].pc = "running"
    /\ calls[c].request.method = "create_chart"
    /\ calls' = [calls EXCEPT ![c].pc = "done",
                              ![c].result = create_chart(inputs[c].df, inputs[c].chart_type,
                                                         inputs[c].config)]
    /\ UNCHANGED <<builders, inputs>>
    /\ UNCHANGED <<qvars, uivars, chartvars, reportvars, sessionvars>>

\* generate_report returns: the template reads the table, the clock and
\* the style sheet
ReturnReport(c) ==
    /\ calls[c].pc = "running"
    /\ calls[c].request.method = "generate_report"
    /\ \E now \in ClockReadings :
          calls' = [calls EXCEPT ![c].pc = "done",
                                 ![c].result =
                                     generate_report_at(inputs[c].df, inputs[c].title,
                                                        inputs[c].report_type,
                                                        inputs[c].include_charts,
                                                        inputs[c].include_statistics,
                                                        inputs[c].px_failures, now)]
    /\ UNCHANGED <<builders, inputs>>
    /\ UNCHANGED <<qvars, uivars, chartvars, reportvars, sessionvars>>

CallsNext ==
    \E c \in Callers : BeginCall(c) \/ ReturnQuery(c) \/ ReturnChart(c) \/ ReturnReport(c)

SpecCalls == CallsInit /\ [][CallsNext]_vars

(***************************************************************************)
(* The session of the application                                          *)
(***************************************************************************)

\* A saved query or a query template is pressed: the query is loaded and
\* the script runs again.
LoadQuery(query) ==
    /\ current_query' = query
    /\ page' = Run("load", <<>>, <<>>, query_results, current_report)
    /\ UNCHANGED <<query_results, current_report, report_source>>
    /\ UNCHANGED <<table_checked, col_checked, group_by_cols, agg_choice, builder_call>>
    /\ UNCHANGED <<qvars, chartvars, reportvars, callvars>>

\* "Execute Query" is pressed: execute_query(), then the rest of the script.
ExecuteQuery ==
    /\ \E engine \in BOOLEAN, read_sql \in ReadSqlOutcomes(current_query) :
          LET done == execute_query(current_query, query_results, engine, read_sql)
          IN  /\ query_results' = done.query_results
              /\ page' = Run("execute", done.db_log, done.messages, done.query_results,
                             current_report)
    /\ UNCHANGED <<current_report, report_source>>
    /\ UNCHANGED uivars
    /\ UNCHANGED <<qvars, chartvars, reportvars, callvars>>

\* "Clear" is pressed: query and results are dropped and the script runs
\* again.
ClearQuery ==
    /\ current_query' = <<>>
    /\ query_results' = PyNone
    /\ page' = Run("clear", <<>>, <<>>, PyNone, current_report)
    /\ UNCHANGED <<current_report, report_source>>
    /\ UNCHANGED <<table_checked, col_checked, group_by_cols, agg_choice, builder_call>>
    /\ UNCHANGED <<qvars, chartvars, reportvars, callvars>>

\* "Generate Report" is pressed: the button is there only while the
\* session holds results.
PressGenerateReport ==
    /\ query_results # PyNone
    /\ \E report_type \in {"Executive Summary", "Detailed Analysis", "Trend Report"},
          include_charts \in BOOLEAN, include_statistics \in BOOLEAN,
          now \in ClockReadings :
          LET report_html ==
                  generate_report_at(query_results, Chars("Data Analysis Report"),
                                     PyStr(Chars(report_type)), include_charts,
                                     include_statistics, {}, now).value
          IN  /\ current_report' = <<report_html>>
              /\ page' = Run("generate", <<>>, <<>>, query_results, <<report_html>>)
    /\ report_source' = <<query_results>>
    /\ UNCHANGED query_results
    /\ UNCHANGED uivars
    /\ UNCHANGED <<qvars, chartvars, reportvars, callvars>>

SessionNext ==
    \/ \E query \in SessionQueries : LoadQuery(query)
    \/ ExecuteQuery
    \/ ClearQuery
    \/ PressGenerateReport

SpecSession == Init /\ [][SessionNext]_vars

(***************************************************************************)
(* Reading a built query back                                              *)
(***************************************************************************)

built == qpc = "built" /\ ~query_result.raised
sql == query_result.value
Lines(text) == Split(text, Chars("\n"))

\* The positions of the lines that start with keyword.
LineNumbers(lines, keyword) ==
    {i \in 1..Len(lines) : StartsWith(lines[i], keyword)}

\* The lines that start with keyword, in order.
LinesWith(lines, keyword) ==
    SelectSeq(lines, LAMBDA l : StartsWith(l, keyword))

CountClause(lines, keyword) == Cardinality(LineNumbers(lines, keyword))

HasClause(lines, keyword) == LineNumbers(lines, keyword) # {}

\* line without its leading keyword
After(line, keyword) == SubSeq(line, Len(keyword) + 1, Len(line))

\* The items of a separated list; an empty text lists nothing.
Items(text, sep) == IF text = <<>> THEN <<>> ELSE Split(text, sep)

KwSelect == Chars("SELECT ")
KwFrom == Chars("FROM ")
KwJoin == Chars("JOIN ")
KwWhere == Chars("WHERE ")
KwGroupBy == Chars("GROUP BY ")
KwOrderBy == Chars("ORDER BY ")

\* The text between "SELECT " and the FROM line.
SelectList(text) ==
    SubSeq(text, Len(KwSelect) + 1, Find(text, Chars("\nFROM ")) - 1)

Qualified(column) == \E i \in 1..Len(column) : column[i] = "."

\* The part of a column reference before its first dot.
TablePrefix(column) ==
    SubSeq(column, 1, (CHOOSE i \in 1..Len(column) :
                          column[i] = "." /\ \A j \in 1..(i - 1) : column[j] # ".") - 1)

\* The part of a column reference after its last dot.
Unqualified(column) ==
    IF Qualified(column)
    THEN SubSeq(column, (CHOOSE i \in 1..Len(column) :
                            column[i] = "." /\ \A j \in (i + 1)..Len(column) : column[j] # ".") + 1,
                Len(column))
    ELSE column

InList(x, list) == \E i \in 1..Len(list) : list[i] = x

\* The lower-cased names of the aggregate functions.
LowerName(f) ==
    CASE f = Chars("SUM") -> Chars("sum")
      [] f = Chars("AVG") -> Chars("avg")
      [] f = Chars("COUNT") -> Chars("count")
      [] f = Chars("MIN") -> Chars("min")
      [] f = Chars("MAX") -> Chars("max")

ExpectedAlias(f, column) == LowerName(f) \o Chars("_") \o Unqualified(column)

\* A filter dict that holds the keys column, operator and value.
HasAllKeys(f) == f.column.kind # "missing" /\ f.operator.kind # "missing"

(***************************************************************************)
(* C1: build_query fails (returns no SQL string) whenever tables is empty  *)
(* or columns is empty.                                                    *)
(***************************************************************************)
C1_EmptyInputFails ==
    (qpc = "built" /\ (selection.tables = <<>> \/ selection.columns = <<>>))
        => query_result.raised

(***************************************************************************)
(* C2, as stated: for non-empty tables and columns the built string has    *)
(* exactly one SELECT line and one FROM line, a WHERE clause iff filters   *)
(* is non-empty, a GROUP BY clause iff group_by is non-empty and an ORDER  *)
(* BY clause iff order_by is non-empty.  (Stated for filters that hold all  *)
(* three keys.)                                                            *)
(***************************************************************************)
C2_ClausesIffInputs ==
    (qpc = "built" /\ selection.tables # <<>> /\ selection.columns # <<>>
        /\ \A i \in 1..Len(selection.filters) : HasAllKeys(selection.filters[i]))
        => /\ ~query_result.raised
           /\ LET lines == Lines(sql) IN
              /\ CountClause(lines, KwSelect) = 1
              /\ CountClause(lines, KwFrom) = 1
              /\ HasClause(lines, KwWhere) <=> (selection.filters # <<>>)
              /\ HasClause(lines, KwGroupBy) <=> (selection.group_by # <<>>)
              /\ HasClause(lines, KwOrderBy) <=> (selection.order_by # <<>>)

\* A filter that names a column and carries a value.
Complete(f) ==
    /\ f.column.kind = "str" /\ f.column.s # <<>>
    /\ f.value.kind \in {"str", "int"}

(***************************************************************************)
(* C2, amended: as C2, but the WHERE clause is present iff at least one    *)
(* filter has a non-empty column and a value that is not None.             *)
(***************************************************************************)
C2_ClausesIffUsableInputs ==
    (qpc = "built" /\ selection.tables # <<>> /\ selection.columns # <<>>)
        => /\ ~query_result.raised
           /\ LET lines == Lines(sql) IN
              /\ CountClause(lines, KwSelect) = 1
              /\ CountClause(lines, KwFrom) = 1
              /\ CountClause(lines, KwWhere) <= 1
              /\ CountClause(lines, KwGroupBy) <= 1
              /\ CountClause(lines, KwOrderBy) <= 1
              /\ HasClause(lines, KwWhere)
                   <=> (\E i \in 1..Len(selection.filters) :
                           Complete(selection.filters[i]))
              /\ HasClause(lines, KwGroupBy) <=> (selection.group_by # <<>>)
              /\ HasClause(lines, KwOrderBy) <=> (selection.order_by # <<>>)

\* A query built with all three optional clauses, one of its filters dropped.
C2_Witness ==
    /\ built
    /\ Len(selection.filters) = 2 /\ ~Complete(selection.filters[1])
    /\ HasClause(Lines(sql), KwWhere)
    /\ HasClause(Lines(sql), KwGroupBy)
    /\ HasClause(Lines(sql), KwOrderBy)


(***************************************************************************)
(* C3: validate_query_components returns is_valid = FALSE iff tables or    *)
(* columns is empty; a column gets a warning iff it is qualified and its   *)
(* table prefix is not in tables; warnings never change is_valid.          *)
(***************************************************************************)
Unselected(column, tables) ==
    Qualified(column) /\ ~InList(TablePrefix(column), tables)

WarnsAbout(warning, column) ==
    StartsWith(warning, Chars("Column ") \o column \o Chars(" references table "))

C3_Validation ==
    qpc = "validated" =>
        LET v == validation_result
            t == selection.tables
            c == selection.columns
        IN  /\ v.is_valid <=> ~(t = <<>> \/ c = <<>>)
            /\ \A i \in 1..Len(c) :
                   (\E k \in 1..Len(v.warnings) : WarnsAbout(v.warnings[k], c[i]))
                       <=> Unselected(c[i], t)
            /\ Len(v.warnings) = Cardinality({i \in 1..Len(c) : Unselected(c[i], t)})

\* A valid selection that is warned about.
C3_Witness ==
    /\ qpc = "validated"
    /\ validation_result.is_valid
    /\ validation_result.warnings # <<>>
    /\ Len(validation_result.warnings) < Len(selection.columns)

(***************************************************************************)
(* C4: the SELECT list has one item per entry of columns, in the order of  *)
(* columns; an entry with aggregation F is F(column) AS f_colname, f the   *)
(* lower-cased function and colname the unqualified column name (SUM on    *)
(* readings.usage_gallons gives sum_usage_gallons); every other entry is   *)
(* the raw column reference.                                               *)
(***************************************************************************)
ExpectedSelectItem(column, aggregations) ==
    IF column \in DOMAIN aggregations
    THEN aggregations[column] \o Chars("(") \o column \o Chars(") AS ")
             \o ExpectedAlias(aggregations[column], column)
    ELSE column

C4_SelectList ==
    built =>
        LET items == Items(SelectList(sql), Chars(",\n    "))
            c == selection.columns
            a == selection.aggregations
        IN  /\ Len(items) = Len(c)
            /\ \A i \in 1..Len(c) : items[i] = ExpectedSelectItem(c[i], a)
            /\ \A i \in 1..Len(c) :
                   (c[i] = usage_gallons_ref /\ c[i] \in DOMAIN a /\ a[c[i]] = Chars("SUM"))
                       => items[i] = Chars("SUM(readings.usage_gallons) AS sum_usage_gallons")

\* Three columns, the first and the last aggregated, the middle one not.
C4_Witness ==
    /\ built
    /\ Len(selection.columns) = 3
    /\ selection.columns[1] \in DOMAIN selection.aggregations
    /\ selection.columns[2] \notin DOMAIN selection.aggregations
    /\ selection.columns[3] = usage_gallons_ref
    /\ usage_gallons_ref \in DOMAIN selection.aggregations
    /\ selection.aggregations[usage_gallons_ref] = Chars("SUM")

(***************************************************************************)
(* C5: the FROM clause is the bare table name for one table; for several,  *)
(* the first is the anchor and every later table appears in exactly one    *)
(* JOIN, in input order, on customer_id iff both the anchor's and the      *)
(* table's name contain "customer", and on id otherwise.                   *)
(***************************************************************************)
CustomerTables == {customer_billing, customer_profiles}

ExpectedJoin(anchor, table) ==
    LET key == IF anchor \in CustomerTables /\ table \in CustomerTables
               THEN Chars("customer_id") ELSE Chars("id")
    IN  KwJoin \o table \o Chars(" ON ") \o anchor \o Chars(".") \o key
            \o Chars(" = ") \o table \o Chars(".") \o key

C5_FromClause ==
    built =>
        LET lines == Lines(sql)
            t == selection.tables
            from == LineNumbers(lines, KwFrom)
        IN  /\ LinesWith(lines, KwFrom) = <<KwFrom \o t[1]>>
            /\ LinesWith(lines, KwJoin)
                   = [i \in 1..(Len(t) - 1) |-> ExpectedJoin(t[1], t[i + 1])]
            /\ \A n \in from :
                   LineNumbers(lines, KwJoin) = (n + 1)..(n + Len(t) - 1)

\* Three tables: a customer anchor, a customer table and another one.
C5_Witness ==
    /\ built
    /\ Len(selection.tables) = 3
    /\ selection.tables[1] \in CustomerTables
    /\ selection.tables[2] \notin CustomerTables
    /\ selection.tables[3] \in CustomerTables


(***************************************************************************)
(* C6, as stated: each supplied filter renders as `column operator value`, *)
(* the value in single quotes iff it is textual and the operator is one of *)
(* =, !=, LIKE; the rendered filters appear in input order joined only by  *)
(* AND.  (Stated for filters that hold all three keys.)                    *)
(***************************************************************************)
\* The text of a filter's field; an absent operator reads "=".
ColumnText(f) == IF f.column.kind = "str" THEN f.column.s ELSE <<>>
OperatorText(f) == IF f.operator.kind = "str" THEN f.operator.s ELSE Chars("=")
ValueText(f) ==
    CASE f.value.kind = "str" -> f.value.s
      [] f.value.kind = "int" /\ f.value.n = 0 -> Chars("0")
      [] f.value.kind = "int" /\ f.value.n = 42 -> Chars("42")
      [] OTHER -> <<>>

ExpectedCondition(f) ==
    ColumnText(f) \o Chars(" ") \o OperatorText(f) \o Chars(" ")
        \o (IF f.value.kind = "str"
               /\ OperatorText(f) \in {Chars("="), Chars("!="), Chars("LIKE")}
            THEN Chars("'") \o ValueText(f) \o Chars("'")
            ELSE ValueText(f))

\* The conditions of the WHERE line, in order; none without a WHERE line.
WhereConditions(lines) ==
    LET w == LinesWith(lines, KwWhere) IN
    IF w = <<>> THEN <<>> ELSE Items(After(w[1], KwWhere), Chars(" AND "))

C6_EveryFilterRendered ==
    (built /\ \A i \in 1..Len(selection.filters) : HasAllKeys(selection.filters[i])) =>
        LET f == selection.filters IN
        WhereConditions(Lines(sql)) = [i \in 1..Len(f) |-> ExpectedCondition(f[i])]

(***************************************************************************)
(* C6, amended: each supplied filter that has a non-empty column and a     *)
(* value other than None renders as `column operator value` (operator =    *)
(* when the filter names none), quoted as stated; the other filters are    *)
(* left out; the rendered filters appear in input order joined only by AND.*)
(***************************************************************************)
C6_CompleteFiltersRendered ==
    built =>
        LET kept == SelectSeq(selection.filters, Complete) IN
        WhereConditions(Lines(sql)) = [i \in 1..Len(kept) |-> ExpectedCondition(kept[i])]

\* Two rendered filters with textual values, the first unquoted, the second quoted.
C6_Witness ==
    /\ built
    /\ Len(selection.filters) = 2
    /\ \A i \in 1..2 : Complete(selection.filters[i]) /\ selection.filters[i].value.kind = "str"
    /\ selection.filters[1].operator = PyStr(Chars("<"))
    /\ selection.filters[2].operator = PyStr(Chars("="))
    /\ Len(WhereConditions(Lines(sql))) = 2

(***************************************************************************)
(* C7: every order_by entry appears once and in input order; an aggregated *)
(* column is emitted as its aggregate alias followed by DESC, every other  *)
(* entry as the raw column followed by ASC.                                *)
(***************************************************************************)
ExpectedOrderItem(item, aggregations) ==
    IF item \in DOMAIN aggregations
    THEN ExpectedAlias(aggregations[item], item) \o Chars(" DESC")
    ELSE item \o Chars(" ASC")

C7_OrderBy ==
    (built /\ selection.order_by # <<>>) =>
        LET o == LinesWith(Lines(sql), KwOrderBy)
            ob == selection.order_by
        IN  /\ Len(o) = 1
            /\ Items(After(o[1], KwOrderBy), Chars(", "))
                   = [i \in 1..Len(ob) |-> ExpectedOrderItem(ob[i], selection.aggregations)]

\* An aggregated column ordered before a plain one.
C7_Witness ==
    /\ built
    /\ Len(selection.order_by) = 2
    /\ selection.order_by[1] \in DOMAIN selection.aggregations
    /\ selection.order_by[2] \notin DOMAIN selection.aggregations

(***************************************************************************)
(* C8: the clauses of the built string occur in the order SELECT, FROM,    *)
(* WHERE, GROUP BY, ORDER BY, each starting a line of its own; no clause   *)
(* precedes one that comes earlier in this order.                          *)
(***************************************************************************)
ClauseOrder == <<KwSelect, KwFrom, KwJoin, KwWhere, KwGroupBy, KwOrderBy>>

C8_ClauseOrder ==
    built =>
        LET lines == Lines(sql) IN
        /\ StartsWith(lines[1], KwSelect)
        /\ \A a, b \in 1..Len(ClauseOrder) :
               a < b => \A i \in LineNumbers(lines, ClauseOrder[a]),
                           j \in LineNumbers(lines, ClauseOrder[b]) : i < j
        /\ \A i \in 1..Len(lines), k \in 2..Len(ClauseOrder) :
               Find(lines[i], ClauseOrder[k]) \in {0, 1}

\* A query with all five clauses.
C8_Witness ==
    /\ built
    /\ \A k \in {1, 2, 4, 5, 6} : HasClause(Lines(sql), ClauseOrder[k])


(***************************************************************************)
(* C9: the aggregations dict that the visual builder hands to build_query  *)
(* shares no column with group_by, so the generated query never has a      *)
(* column both inside an aggregate of the SELECT list and in GROUP BY.     *)
(***************************************************************************)
\* The columns inside an aggregate of the SELECT list of text.
AggregatedColumns(text) ==
    LET items == Items(SelectList(text), Chars(",\n    ")) IN
    {SubSeq(items[i], Find(items[i], Chars("(")) + 1, Find(items[i], Chars(") AS ")) - 1) :
        i \in {j \in 1..Len(items) : Contains(items[j], Chars(") AS "))}}

\* The columns of the GROUP BY clause of text.
GroupByColumns(text) ==
    LET g == LinesWith(Lines(text), KwGroupBy) IN
    IF g = <<>> THEN {} ELSE Range(Items(After(g[1], KwGroupBy), Chars(", ")))

C9_GroupByDisjointFromAggregations ==
    builder_call.called =>
        LET aggregated == AggregatedColumns(builder_call.sql_query.value)
            grouped == GroupByColumns(builder_call.sql_query.value)
        IN  /\ ~builder_call.sql_query.raised
            /\ DOMAIN builder_call.aggregations \cap Range(builder_call.group_by) = {}
            /\ aggregated = DOMAIN builder_call.aggregations
            /\ grouped = Range(builder_call.group_by)
            /\ aggregated \cap grouped = {}

\* A generated query that groups by one column and aggregates another.
C9_Witness ==
    /\ builder_call.called
    /\ builder_call.group_by # <<>>
    /\ DOMAIN builder_call.aggregations # {}
    /\ AggregatedColumns(builder_call.sql_query.value) # {}
    /\ GroupByColumns(builder_call.sql_query.value) # {}
    /\ current_query = builder_call.sql_query.value

(***************************************************************************)
(* C10                                                                     *)
(***************************************************************************)

charted == cpc = "done"

\* A role is missing from the bindings: the key is absent, or bound to None
\* or to the empty string.
RoleMissing(request) ==
    \E role \in RequiredRoles(request.chart_type) :
        ~Truthy(Get(request.config, role, PyNone))

figure_returned == charted /\ ~chart_result.raised /\ chart_result.value.kind = "figure"

\* The value column added up over the rows of the frame that carry the label.
LabelTotal(df, label_col, value_col, label) ==
    LET total[k \in 0..Len(df.rows)] ==
            IF k = 0 THEN 0
            ELSE total[k - 1] + (IF df.rows[k][label_col] = label
                                 THEN df.rows[k][value_col] ELSE 0)
    IN  total[Len(df.rows)]

\* C11: the data of a pie or treemap chart has exactly one entry for each
\* distinct label of the input table, the value of the entry is the sum of
\* the value column over the rows with that label, and no label occurs in
\* two entries.
C11_OneSliceForEachLabel ==
    (figure_returned /\ chart_request.chart_type \in LabelValueTypes) =>
        LET df == chart_request.df
            label_col == chart_request.config.label_col.s
            value_col == chart_request.config.value_col.s
            slices == chart_result.value.traces[1]
        IN  /\ Len(chart_result.value.traces) = 1
            /\ Len(slices.x) = Len(slices.y)
            /\ Range(slices.x) = Range(ColumnValues(df, label_col))
            /\ \A i, j \in 1..Len(slices.x) : slices.x[i] = slices.x[j] => i = j
            /\ \A i \in 1..Len(slices.x) :
                  slices.y[i] = LabelTotal(df, label_col, value_col, slices.x[i])

\* A pie or treemap chart has been made of a frame in which two rows carry
\* the same label, and the one slice of that label holds their sum.
C11_Witness ==
    /\ figure_returned
    /\ chart_request.chart_type \in LabelValueTypes
    /\ \E i, j \in 1..Len(chart_request.df.rows) :
          /\ i # j
          /\ chart_request.df.rows[i][zone] = chart_request.df.rows[j][zone]
          /\ chart_request.df.rows[i][usage] # chart_request.df.rows[j][usage]
    /\ \E k \in 1..Len(chart_result.value.traces[1].y) :
          chart_result.value.traces[1].y[k] = 15

(***************************************************************************)
(* C12                                                                     *)
(***************************************************************************)

\* The theme and the sizing every chart is to carry.
FixedLayout ==
    ("paper_bgcolor" :> "white") @@ ("plot_bgcolor" :> "white")
    @@ ("font.family" :> "Arial, sans-serif") @@ ("font.size" :> 12)
    @@ ("font.color" :> "#2e2e2e")
    @@ ("xaxis.gridcolor" :> "#e6e6e6") @@ ("yaxis.gridcolor" :> "#e6e6e6")
    @@ ("height" :> 500)
    @@ ("margin.l" :> 50) @@ ("margin.r" :> 50) @@ ("margin.t" :> 80) @@ ("margin.b" :> 50)
    @@ ("showlegend" :> TRUE)

\* C12: every chart create_chart returns, whatever its type, carries the
\* fixed theme (font, paper and plot background, gridline colour) and the
\* fixed sizing (height 500, margins 50/50/80/50, legend shown); none is
\* returned without them and no setting of a chart method overrides them.
C12_ThemeAndSizing ==
    figure_returned =>
        \A key \in DOMAIN FixedLayout :
            /\ key \in DOMAIN chart_result.value.layout
            /\ chart_result.value.layout[key] = FixedLayout[key]

\* A bar chart has been returned that holds a setting of its chart method
\* (the tick angle) next to the height create_chart gave it.
C12_Witness ==
    /\ figure_returned
    /\ chart_request.chart_type = "Bar Chart"
    /\ "xaxis.tickangle" \in DOMAIN chart_result.value.layout
    /\ chart_result.value.layout["height"] = 500

(***************************************************************************)
(* C13                                                                     *)
(***************************************************************************)

recommended == cpc = "recommended"

\* How many columns of the frame have the dtype.
ColumnCount(df, dtype) == Cardinality({c \in Range(df.columns) : df.dtypes[c] = dtype})

\* How often the chart type is recommended.
TimesRecommended(type) ==
    Cardinality({i \in 1..Len(recommendations) : recommendations[i].type = type})

Recommended(type) == TimesRecommended(type) > 0

\* C13: get_chart_recommendations returns a line chart iff the table has a
\* datetime and a numeric column, a bar and a pie chart iff it has a
\* categorical and a numeric column, a scatter and a heatmap iff it has two
\* numeric columns, a histogram and a box plot iff it has a numeric column;
\* nothing else is recommended, and the call creates no chart.
C13_Recommendations ==
    recommended =>
        LET df == chart_request.df
            numeric == ColumnCount(df, "number")
            categorical == ColumnCount(df, "object")
            datetime == ColumnCount(df, "datetime")
        IN  /\ Recommended("Line Chart") <=> (datetime >= 1 /\ numeric >= 1)
            /\ Recommended("Bar Chart") <=> (categorical >= 1 /\ numeric >= 1)
            /\ Recommended("Pie Chart") <=> (categorical >= 1 /\ numeric >= 1)
            /\ Recommended("Scatter Plot") <=> numeric >= 2
            /\ Recommended("Heatmap") <=> numeric >= 2
            /\ Recommended("Histogram") <=> numeric >= 1
            /\ Recommended("Box Plot") <=> numeric >= 1
            /\ \A i \in 1..Len(recommendations) :
                  /\ recommendations[i].type \in
                        {"Line Chart", "Bar Chart", "Pie Chart", "Scatter Plot", "Heatmap",
                         "Histogram", "Box Plot"}
                  /\ TimesRecommended(recommendations[i].type) = 1
            /\ chart_result = Returned(PyNone)

\* Recommendations were asked for a frame with a datetime, a categorical and
\* exactly one numeric column: five charts are recommended, no scatter plot.
C13_Witness ==
    /\ recommended
    /\ ColumnCount(chart_request.df, "datetime") = 1
    /\ ColumnCount(chart_request.df, "object") = 1
    /\ ColumnCount(chart_request.df, "number") = 1
    /\ Len(recommendations) = 5
    /\ Recommended("Line Chart")
    /\ ~Recommended("Scatter Plot")

(***************************************************************************)
(* C14                                                                     *)
(***************************************************************************)

\* generate_report has returned or raised.
generated == rpc = "done" /\ report_request.call = "generate_report"

\* The report type with its letters lowered and its spaces made underscores.
TypeName(report_type) ==
    [i \in 1..Len(report_type) |->
        IF report_type[i] = " " THEN "_" ELSE LowerChar(report_type[i])]

\* C14 as stated: generate_report selects the executive, detailed or trend
\* template when report_type names it (case-insensitively, spaces treated as
\* underscores), and for every other report_type string it produces the
\* detailed-analysis report without any error.
C14_TemplateByType ==
    (generated /\ report_request.report_type.kind = "str") =>
        LET name == TypeName(report_request.report_type.s)
            document == report_result.value
        IN  /\ ~report_result.raised
            /\ document.kind = "report"
            /\ document.template =
                  (IF name \in {Chars("executive_summary"), Chars("detailed_analysis"),
                                Chars("trend_report")}
                   THEN name ELSE Chars("detailed_analysis"))

(***************************************************************************)
(* C15                                                                     *)
(***************************************************************************)

\* What the selected template does with the arguments of the request.
Assembly ==
    template_func(SelectedTemplate(report_request.report_type.s), report_request.df,
                  report_request.title, report_request.include_charts,
                  report_request.include_statistics, report_request.px_failures)

\* C15: generate_report never lets an exception escape, for any table,
\* title, report type and flags: a failure inside template assembly is
\* converted into the error-report document that embeds the failure
\* message, so the caller always receives a document.
C15_NeverRaises ==
    generated =>
        /\ ~report_result.raised
        /\ report_result.value.kind \in {"report", "error"}
        /\ (report_request.report_type.kind = "str" /\ Assembly.raised) =>
              /\ report_result.value.kind = "error"
              /\ report_result.value.message = Assembly.error
        /\ report_result.value.kind = "error" => report_result.value.message # ""

\* An executive summary was asked for; the failure of its metric cards has
\* become the error report with the message of the failure.
C15_Witness ==
    /\ generated
    /\ report_request.report_type = PyStr(Chars("Executive Summary"))
    /\ ~Empty(report_request.df)
    /\ ~report_result.raised
    /\ report_result.value.kind = "error"
    /\ report_result.value.message = "ValueError: Invalid format specifier"

(***************************************************************************)
(* C16                                                                     *)
(***************************************************************************)

\* The sections of the kind in the document.
SectionsOf(document, kind) == SelectSeq(document.sections, LAMBDA s : s.kind = kind)

\* C16 as stated: for a table with zero rows generate_report, under any
\* report type, does not raise and returns a document that contains an
\* insights section stating that no data is available.
C16_EmptyTableInsights ==
    (generated /\ Len(report_request.df.rows) = 0) =>
        /\ ~report_result.raised
        /\ \E i \in 1..Len(report_result.value.sections) :
              /\ report_result.value.sections[i].kind = "insights"
              /\ report_result.value.sections[i].payload =
                    <<[line |-> "No data available for analysis."]>>

(***************************************************************************)
(* C17                                                                     *)
(***************************************************************************)

\* The document has a data-quality section.
quality_reported ==
    /\ generated
    /\ ~report_result.raised
    /\ SectionsOf(report_result.value, "qualityAssessment") # <<>>

\* The text is a number with one decimal: digits, a point, one digit.
IsOneDecimal(text) ==
    /\ Len(text) >= 3
    /\ text[Len(text) - 1] = "."
    /\ \A i \in (1..Len(text)) \ {Len(text) - 1} : text[i] \in Range(Digits)

\* The number with one decimal that the text shows, in tenths.
Tenths(text) ==
    LET digits == SubSeq(text, 1, Len(text) - 2) \o <<text[Len(text)]>>
        value[k \in 0..Len(digits)] ==
            IF k = 0 THEN 0
            ELSE 10 * value[k - 1] + (CHOOSE d \in 0..9 : Digits[d + 1] = digits[k])
    IN  value[Len(digits)]

\* C17 as stated: for a table with R rows, C columns and M null cells the
\* data-quality section reports overall completeness equal to
\* 100 * (1 - M/(R*C)) rounded to one decimal, for every R, C and M
\* (including R*C = 0).
C17_QualityCompleteness ==
    quality_reported =>
        LET R == Len(report_request.df.rows)
            C == Len(report_request.df.columns)
            M == Cardinality(report_request.df.nulls)
            shown == SectionsOf(report_result.value, "qualityAssessment")[1].payload.completeness
        IN  /\ IsOneDecimal(shown)
            /\ R * C > 0 =>
                  \* no tenth is nearer to 100 * (R*C - M) / (R*C)
                  LET gap == 10 * 100 * (R * C - M) - Tenths(shown) * (R * C)
                  IN  2 * gap <= R * C /\ 2 * gap >= -(R * C)

(***************************************************************************)
(* C18                                                                     *)
(***************************************************************************)

summarised == rpc = "done" /\ report_request.call = "generate_summary_stats"

\* C18 as stated: the data-completeness value of the summary statistics
\* equals filled cells / total cells x 100 for every table, whatever its
\* column types; it is below 100 whenever the table has a null cell.
C18_SummaryCompleteness ==
    (summarised /\ ~Empty(report_request.df)) =>
        LET total == Len(report_request.df.rows) * Len(report_request.df.columns)
            filled == total - Cardinality(report_request.df.nulls)
            shown == report_result.value.data_completeness
        IN  /\ shown.den # 0
            /\ shown.num * total = 100 * filled * shown.den
            /\ filled < total => shown.num < 100 * shown.den

(***************************************************************************)
(* C19                                                                     *)
(***************************************************************************)

advised == rpc = "done" /\ report_request.call = "generate_recommendations"

\* The recommendation a rule contributes when its condition holds.
Rule(condition, recommendation) == IF condition THEN <<recommendation>> ELSE <<>>

\* C19: for a non-empty table the recommendations come from three
\* independent rules in the fixed order (1) some null cell -> quality
\* remediation, (2) more than 10,000 rows -> sampling/aggregation, (3) at
\* least 2 numeric columns -> correlation/predictive analysis; each rule
\* whose condition holds contributes exactly one recommendation in that
\* order, and the generic recommendation is given iff none of them fired.
C19_RecommendationRules ==
    (advised /\ ~Empty(report_request.df)) =>
        LET df == report_request.df
            fired == Rule(df.nulls # {}, "Data Quality Improvement")
                     \o Rule(Len(df.rows) > 10000, "Performance Optimization")
                     \o Rule(Cardinality({c \in Range(df.columns) :
                                             df.dtypes[c] = "number"}) >= 2,
                             "Advanced Analysis")
        IN  report_result.value = IF fired = <<>> THEN <<"Data Exploration">> ELSE fired

\* A table of more than 10,000 rows with a null cell and two numeric
\* columns has got all three recommendations.
C19_Witness ==
    /\ advised
    /\ Len(report_request.df.rows) > 10000
    /\ report_request.df.nulls # {}
    /\ report_result.value = <<"Data Quality Improvement", "Performance Optimization",
                               "Advanced Analysis">>

(***************************************************************************)
(* C20                                                                     *)
(***************************************************************************)

\* The document the same call gives when every chart can be drawn.
Unfailing ==
    generate_report(report_request.df, report_request.title, report_request.report_type,
                    report_request.include_charts, report_request.include_statistics,
                    {}).value

\* The charts a document embeds.
ChartsOf(document) ==
    Flatten([k \in 1..Len(SectionsOf(document, "chart")) |->
                SectionsOf(document, "chart")[k].payload])

\* C20: inside a report the failure of a chart neither aborts the report
\* nor suppresses the other charts: the failed chart alone is left out,
\* every chart that can be built is still embedded, and all sections that
\* are not charts are still present.
C20_FailedChartOmitted ==
    generated =>
        LET document == report_result.value
        IN  /\ ~report_result.raised
            /\ document.kind = Unfailing.kind
            /\ ChartsOf(document) =
                  SelectSeq(ChartsOf(Unfailing),
                            LAMBDA c : c.chart \notin report_request.px_failures)
            /\ SelectSeq(document.sections, LAMBDA s : s.kind # "chart") =
                  SelectSeq(Unfailing.sections, LAMBDA s : s.kind # "chart")

\* The bar chart of a detailed report failed: the report embeds its other
\* three charts and still has its data-quality section.
C20_Witness ==
    /\ generated
    /\ report_request.px_failures = {"bar"}
    /\ report_result.value.kind = "report"
    /\ report_result.value.template = detailed_analysis
    /\ Len(ChartsOf(Unfailing)) = 4
    /\ Len(ChartsOf(report_result.value)) = 3
    /\ \A k \in 1..3 : ChartsOf(report_result.value)[k].chart # "bar"
    /\ SectionsOf(report_result.value, "qualityAssessment") # <<>>
(***************************************************************************)
(* C24                                                                     *)
(***************************************************************************)

\* The indices <<k, i>> of the points of the traces.
PointIndices(traces) ==
    UNION {{<<k, i>> : i \in 1..Len(traces[k].x)} : k \in 1..Len(traces)}

PlottedPoint(traces, ki) == <<traces[ki[1]].x[ki[2]], traces[ki[1]].y[ki[2]]>>

\* How many times the figure plots the point, and how many rows of the
\* frame hold it.
TimesPlotted(traces, point) ==
    Cardinality({ki \in PointIndices(traces) : PlottedPoint(traces, ki) = point})

TimesInFrame(df, x_col, y_col, point) ==
    Cardinality({i \in 1..Len(df.rows) : <<df.rows[i][x_col], df.rows[i][y_col]>> = point})

LineOrArea == chart_request.chart_type \in {"Line Chart", "Area Chart"}

\* C24: a line or an area chart plots the rows of the input table in the
\* order of non-decreasing x (along each line it draws), whatever the
\* order of the rows in the table, and plots every row's (x, y) point as
\* many times as the table holds it: the sort neither drops nor adds a row.
C24_PointsSortedByX ==
    (figure_returned /\ LineOrArea) =>
        LET df == chart_request.df
            x_col == chart_request.config.x_col.s
            y_col == chart_request.config.y_col.s
            traces == chart_result.value.traces
        IN  /\ \A k \in 1..Len(traces) :
                  /\ Len(traces[k].y) = Len(traces[k].x)
                  /\ \A i \in 1..(Len(traces[k].x) - 1) :
                        ~CellLess(df, x_col, traces[k].x[i + 1], traces[k].x[i])
            /\ Cardinality(PointIndices(traces)) = Len(df.rows)
            /\ \A i \in 1..Len(df.rows) :
                  LET point == <<df.rows[i][x_col], df.rows[i][y_col]>>
                  IN  TimesPlotted(traces, point) = TimesInFrame(df, x_col, y_col, point)

\* A line or area chart of a table whose rows come in descending x.
C24_Witness ==
    /\ figure_returned
    /\ LineOrArea
    /\ Len(chart_request.df.rows) >= 2
    /\ chart_request.config.x_col = PyStr(usage)
    /\ chart_request.df.rows[2][usage] < chart_request.df.rows[1][usage]
    /\ chart_result.value.traces[1].x[1] = chart_request.df.rows[2][usage]
(***************************************************************************)
(* C25                                                                     *)
(***************************************************************************)

\* The nulls of a column, counted from the cells of the table.
NullsIn(df, col) == Cardinality({i \in 1..Len(df.rows) : <<i, col>> \in df.nulls})

\* Where the column stands in the table.
ColumnPosition(df, col) == CHOOSE k \in 1..Len(df.columns) : df.columns[k] = col

QualitySection == SectionsOf(report_result.value, "qualityAssessment")[1].payload

\* C25: the data-quality section lists exactly the columns that have at
\* least one null cell, each once, with its count of nulls and its
\* percentage of nulls (count / rows * 100, shown to the nearest
\* hundredth), in the order the columns have in the table whatever their
\* counts; when no cell is null the section has no listing.
C25_ColumnsWithNullsListed ==
    quality_reported =>
        LET df == report_request.df
            listing == QualitySection.missing_df
        IN  /\ (listing = <<>>) <=> (df.nulls = {})
            /\ listing # <<>> =>
                  LET listed == listing[1]
                  IN  /\ {listed[k].Column : k \in 1..Len(listed)} =
                            {c \in Range(df.columns) : NullsIn(df, c) > 0}
                      /\ \A j, k \in 1..Len(listed) :
                            j < k => ColumnPosition(df, listed[j].Column)
                                        < ColumnPosition(df, listed[k].Column)
                      /\ \A k \in 1..Len(listed) :
                            LET count == NullsIn(df, listed[k].Column)
                                gap == listed[k].MissingPercent.num * Len(df.rows)
                                          - count * 10000
                            IN  /\ listed[k].MissingCount = count
                                /\ listed[k].MissingPercent.den = 100
                                /\ 2 * gap <= Len(df.rows)
                                /\ 2 * gap >= 0 - Len(df.rows)

\* A report of a table whose second column has more nulls than its first:
\* the first is listed first all the same.
C25_Witness ==
    /\ quality_reported
    /\ NullsIn(report_request.df, zone) = 1
    /\ NullsIn(report_request.df, usage) = 2
    /\ Len(QualitySection.missing_df) = 1
    /\ QualitySection.missing_df[1][1].Column = zone
    /\ QualitySection.missing_df[1][2].MissingPercent = Frac(10000, 100)
(***************************************************************************)
(* C26                                                                     *)
(***************************************************************************)

\* C26 as stated: the WHERE clause holds one condition for each filter
\* supplied, the filters without a column or with the value None included,
\* and a non-empty filters list always yields a WHERE clause.
C26_OneConditionForEachFilter ==
    built =>
        /\ Len(WhereConditions(Lines(sql))) = Len(selection.filters)
        /\ selection.filters # <<>> => HasClause(Lines(sql), KwWhere)

\* How many of the filters name a column and carry a value.
CompleteFilters(filters) == Cardinality({i \in 1..Len(filters) : Complete(filters[i])})

\* C26, amended: the WHERE clause holds one condition for each filter that
\* has a non-empty column and a value other than None, and none for the
\* others; a filters list yields a WHERE clause iff it has such a filter.
C26_OneConditionForEachCompleteFilter ==
    built =>
        /\ Len(WhereConditions(Lines(sql))) = CompleteFilters(selection.filters)
        /\ HasClause(Lines(sql), KwWhere) <=> CompleteFilters(selection.filters) > 0

\* Two filters given, the second without a value: one condition.
C26_Witness ==
    /\ built
    /\ Len(selection.filters) = 2
    /\ Complete(selection.filters[1])
    /\ selection.filters[2].value = PyNone
    /\ Len(WhereConditions(Lines(sql))) = 1
(***************************************************************************)
(* C27                                                                     *)
(***************************************************************************)

KwAs == Chars(" AS ")
KwDesc == Chars(" DESC")

EndsWith(s, p) == Len(p) <= Len(s) /\ SubSeq(s, Len(s) - Len(p) + 1, Len(s)) = p

\* The aliases the SELECT clause defines: what follows " AS " in its items.
SelectAliases(text) ==
    LET items == Items(SelectList(text), Chars(",\n    "))
    IN  [k \in 1..Len(SelectSeq(items, LAMBDA item : Contains(item, KwAs))) |->
            LET item == SelectSeq(items, LAMBDA it : Contains(it, KwAs))[k]
            IN  SubSeq(item, Find(item, KwAs) + Len(KwAs), Len(item))]

\* The aggregate aliases the ORDER BY clause sorts by: its DESC items.
OrderAliases(text) ==
    LET o == LinesWith(Lines(text), KwOrderBy)
        items == IF o = <<>> THEN <<>> ELSE Items(After(o[1], KwOrderBy), Chars(", "))
        sorted == SelectSeq(items, LAMBDA item : EndsWith(item, KwDesc))
    IN  [k \in 1..Len(sorted) |-> SubSeq(sorted[k], 1, Len(sorted[k]) - Len(KwDesc))]

\* C27 as stated: every aggregate alias of the ORDER BY clause is defined
\* by an AS item of the SELECT clause of the same query, the order_by
\* entries that have an aggregation but are not in columns included.
C27_OrderAliasesDefined ==
    built => Range(OrderAliases(sql)) \subseteq Range(SelectAliases(sql))

(***************************************************************************)
(* C28                                                                     *)
(***************************************************************************)

\* C28 as stated: the aliases of one SELECT clause are pairwise distinct.
C28_AliasesDistinct ==
    built =>
        LET aliases == SelectAliases(sql)
        IN  \A i, j \in 1..Len(aliases) : i # j => aliases[i] # aliases[j]
(***************************************************************************)
(* C30                                                                     *)
(***************************************************************************)

Roles == {"x_col", "y_col", "label_col", "value_col", "color_col", "size_col"}

\* The recommendation handed to create_chart as its config: the roles it
\* binds, every other role absent.
ConfigOf(recommendation) ==
    [role \in Roles |-> IF role \in DOMAIN recommendation
                        THEN PyStr(recommendation[role]) ELSE PyMissing]

\* C30: every recommendation of get_chart_recommendations can be handed to
\* create_chart as it is: its type is a chart type, every column it binds
\* is a column of the table, it binds every role its chart type requires
\* (x and y for line, bar and scatter, label and value for pie, x for
\* histogram and box, none for heatmap), and create_chart makes a figure
\* of it whenever the table has a row.
C30_RecommendationsUsable ==
    recommended =>
        \A i \in 1..Len(recommendations) :
            LET r == recommendations[i]
                df == chart_request.df
            IN  /\ r.type \in ChartTypes
                /\ \A role \in Roles \cap DOMAIN r : HasColumn(df, r[role])
                /\ RequiredRoles(r.type) \subseteq DOMAIN r
                /\ \A role \in RequiredRoles(r.type) : Truthy(ConfigOf(r)[role])
                /\ ~Empty(df) =>
                      LET chart == create_chart(df, r.type, ConfigOf(r))
                      IN  ~chart.raised /\ chart.value.kind = "figure"

\* The recommendations for a table with a row, a label and two measures:
\* a pie, a heatmap and a box plot among them.
C30_Witness ==
    /\ recommended
    /\ ~Empty(chart_request.df)
    /\ Len(recommendations) = 6
    /\ Recommended("Pie Chart")
    /\ Recommended("Heatmap")
    /\ Recommended("Box Plot")
(***************************************************************************)
(* C21                                                                     *)
(***************************************************************************)

\* The document without its "Report Generated:" line and the year of its
\* footer.
Unstamped(document) ==
    [field \in DOMAIN document \ {"generated", "year"} |-> document[field]]

ReportReturned(c) == calls[c].pc = "done" /\ calls[c].request.method = "generate_report"

Alone(request) ==
    LET args == request.args
    IN  CASE request.method = "build_query" ->
                build_query(args.tables, args.columns, args.group_by, args.aggregations,
                            args.filters, args.order_by)
          [] request.method = "create_chart" ->
                create_chart(args.df, args.chart_type, args.config)
          [] request.method = "generate_report" ->
                generate_report(args.df, args.title, args.report_type, args.include_charts,
                                args.include_statistics, args.px_failures)

C22_FailedExecutionLeavesResults ==
    [][(page'.clicked = "execute" /\ page'.db_log # <<>> /\ page'.db_log[1].raised) =>
          /\ Len(page'.db_log) = 1
          /\ page'.messages = <<Message("error", "Query execution failed: ",
                                        page'.db_log[1].error, 0)>>
          /\ query_results' = query_results]_vars

\* Results of an earlier execution are in the session, and the execution
\* that followed has failed inside pd.read_sql_query.
C22_Witness ==
    /\ page.clicked = "execute"
    /\ page.db_log = <<[raised |-> TRUE, error |-> "connection refused"]>>
    /\ page.messages[1].level = "error"
    /\ page.messages[1].detail = "connection refused"
    /\ query_results = ResultOf(Chars("SELECT zone"))
    /\ current_query = Chars("SELECT usage")

(***************************************************************************)
(* C29                                                                     *)
(***************************************************************************)

\* C29 as stated: after any sequence of Execute, Clear, load-query and
\* Generate-Report, the report a run shows and offers for download was
\* generated from the query results the session holds.
C29_ReportOfCurrentResults ==
    page.preview # <<>> => report_source = <<query_results>>

=============================================================================
